---- MODULE Spec2Model ----
(***************************************************************************)
(* PyMon telemetry pipeline: the metric catalog (MetricsRegistry and its   *)
(* Counter/Gauge wrappers), the exposition encoder and the scrape parser.  *)
(*                                                                         *)
(* Python strings are sequences of one-character strings, so that label    *)
(* keys, exposition text and its parsing are computed character by         *)
(* character as the code computes them.                                    *)
(***************************************************************************)
EXTENDS Integers, Sequences, FiniteSets, TLC

VARIABLES
    series,     \* MetricsRegistry._series : name -> MetricSeries
    metrics,    \* MetricsRegistry._metrics: insertion-ordered name -> (key -> Metric)
    lock,       \* MetricsRegistry._lock   : the thread holding it, or NoThread
    pc,         \* per thread: position inside the catalog call it is executing
    call,       \* per thread: the call in progress (its arguments)
    ret,        \* per thread: outcome of the last finished call
    iter,       \* per thread: dict-iteration state of get_all_metrics / export_prometheus
    out,        \* per thread: items yielded / lines appended so far
    snap,       \* per thread: samples stored when its get_all_metrics iteration began
    wrappers,   \* the Counter/Gauge objects constructed so far
    ncalls,     \* number of calls invoked so far
    storage,    \* storage/__init__.py: the backend object and what it holds
    now,        \* the wall clock, in hours
    written,    \* history: every Metric handed to storage.write, in order
    sres,       \* outcome of the last call made on the backend
    running,    \* ScrapeManager._running
    tasks,      \* ScrapeManager._tasks: the worker threads started
    wpc,        \* per thread: the statement of its own code it executes next
    cycle,      \* per thread: the polling cycle (or request) it is in
    targets,    \* ScrapeManager.targets: the targets tracked, in order
    collecting, \* SystemCollector._running
    loops,      \* the collect() tasks of the event loop that have not ended
    collected   \* history: the number of collections made

catalogVars == <<series, metrics, lock, pc, call, ret, iter, out, snap, wrappers, ncalls>>
storeVars   == <<storage, now, written, sres>>

collectorVars == <<collecting, loops, collected>>

\* the state of the daemons of the process: scrape engine and self collector
engineVars  == <<running, tasks, wpc, cycle, targets, collectorVars>>

vars == <<series, metrics, lock, pc, call, ret, iter, out, snap, wrappers, ncalls,
          storage, now, written, sres, running, tasks, wpc, cycle, targets,
          collecting, loops, collected>>

(***************************************************************************)
(* Bounds                                                                  *)
(***************************************************************************)
MaxCalls == 4       \* calls invoked in one behaviour
MaxValue == 2       \* numeric arguments range over 1..MaxValue
MaxCycles == 2      \* polling cycles of a worker in one behaviour
MaxIngest == 2      \* metrics ingested through the API in one behaviour
MaxScrapes == 2     \* targets scraped one after the other in one behaviour
MaxWrites == 3      \* metrics written to the store in one behaviour
MaxTicks == 2       \* steps of the clock in one behaviour
TickHours == 12     \* hours in one step of the clock

Threads  == {"t1", "t2"}
NoThread == "none"

(***************************************************************************)
(* Strings                                                                 *)
(***************************************************************************)
\* the characters in use, in code-point order (Python compares str by code point)
CodeOrder == <<"\n", " ", "\"", "#", ",", "-", ".", "/", "0", "1", "2", "3", "4",
               "5", "6", "7", "8", "9", ":", "=", "A", "E", "H", "L", "P", "T", "Y", "_",
               "a", "b", "c", "d", "e", "f", "g", "h", "i", "j", "k", "l", "m", "n",
               "o", "p", "q", "r", "s", "t", "u", "v", "w", "x", "y", "z", "{", "}">>

Ord(c) == CHOOSE i \in 1..Len(CodeOrder) : CodeOrder[i] = c

\* Python: a < b on str
RECURSIVE StrLess(_, _)
StrLess(a, b) ==
    IF b = <<>> THEN FALSE
    ELSE IF a = <<>> THEN TRUE
    ELSE IF Ord(Head(a)) < Ord(Head(b)) THEN TRUE
    ELSE IF Ord(Head(a)) > Ord(Head(b)) THEN FALSE
    ELSE StrLess(Tail(a), Tail(b))

\* Python: s.startswith(prefix)
StartsWith(s, prefix) == Len(prefix) <= Len(s) /\ SubSeq(s, 1, Len(prefix)) = prefix

\* Python: sep.join(parts)
RECURSIVE Join(_, _)
Join(sep, parts) ==
    IF parts = <<>> THEN <<>>
    ELSE IF Len(parts) = 1 THEN parts[1]
    ELSE parts[1] \o sep \o Join(sep, Tail(parts))

Digits == <<"0", "1", "2", "3", "4", "5", "6", "7", "8", "9">>

\* Python: str(n) for an int n
RECURSIVE StrNat(_)
StrNat(n) == IF n < 10 THEN <<Digits[n + 1]>> ELSE StrNat(n \div 10) \o <<Digits[(n % 10) + 1]>>

StrInt(n) == IF n < 0 THEN <<"-">> \o StrNat(0 - n) ELSE StrNat(n)

\* a Python number: an int n, or (isfloat) the float n.0
Num(n, isfloat) == [n |-> n, isfloat |-> isfloat]

\* Python: f"{value}" -- an int prints as "3", a float as "3.0"
StrValue(v) == IF v.isfloat THEN StrInt(v.n) \o <<".", "0">> ELSE StrInt(v.n)

\* Python: a + b on numbers (float if either operand is)
NumAdd(a, b) == Num(a.n + b.n, a.isfloat \/ b.isfloat)

(***************************************************************************)
(* models.py                                                               *)
(***************************************************************************)
MetricType == {"counter", "gauge", "histogram", "summary"}

Label(name, value) == [name |-> name, value |-> value]

\* sorted(labels, key=lambda x: x.name): stable insertion by name
RECURSIVE InsertByName(_, _)
InsertByName(l, sorted) ==
    IF sorted = <<>> THEN <<l>>
    ELSE IF StrLess(l.name, Head(sorted).name) THEN <<l>> \o sorted
    ELSE <<Head(sorted)>> \o InsertByName(l, Tail(sorted))

RECURSIVE SortedByName(_)
SortedByName(labels) ==
    IF labels = <<>> THEN <<>>
    ELSE InsertByName(labels[Len(labels)], SortedByName(SubSeq(labels, 1, Len(labels) - 1)))

\* Metric.labels_key
labels_key(labels) ==
    LET sorted == SortedByName(labels)
    IN  Join(<<",">>, [i \in 1..Len(sorted) |-> sorted[i].name \o <<"=">> \o sorted[i].value])

Metric(name, value, metric_type, labels, help_text) ==
    [name |-> name, value |-> value, metric_type |-> metric_type,
     labels |-> labels, help_text |-> help_text]

MetricSeries(name, metric_type, help_text, labels) ==
    [name |-> name, metric_type |-> metric_type, help_text |-> help_text, labels |-> labels]

(***************************************************************************)
(* Python dict as an insertion-ordered sequence of entries                 *)
(***************************************************************************)
\* position of name in the outer dict _metrics, 0 when absent
NameIndex(ms, name) ==
    IF \E i \in 1..Len(ms) : ms[i].name = name
    THEN CHOOSE i \in 1..Len(ms) : ms[i].name = name
    ELSE 0

\* self._metrics.get(name, {})
Items(ms, name) == IF NameIndex(ms, name) = 0 THEN <<>> ELSE ms[NameIndex(ms, name)].items

\* position of key in an inner dict, 0 when absent
KeyIndex(items, key) ==
    IF \E j \in 1..Len(items) : items[j].key = key
    THEN CHOOSE j \in 1..Len(items) : items[j].key = key
    ELSE 0

\* self._metrics[name] on the defaultdict: a missing name gets an empty inner dict
Touch(ms, name) ==
    IF NameIndex(ms, name) = 0 THEN Append(ms, [name |-> name, items |-> <<>>]) ELSE ms

\* inner[key] = m : overwrite in place, or append a new entry
PutItem(items, key, m) ==
    IF KeyIndex(items, key) = 0
    THEN Append(items, [key |-> key, m |-> m])
    ELSE [items EXCEPT ![KeyIndex(items, key)] = [key |-> key, m |-> m]]

\* self._metrics[name][key] = m
Store(ms, name, key, m) ==
    LET t == Touch(ms, name)
        i == NameIndex(t, name)
    IN  [t EXCEPT ![i].items = PutItem(t[i].items, key, m)]

\* every Metric held by the catalog, in iteration order of the two nested dicts
RECURSIVE AllMetrics(_)
AllMetrics(ms) ==
    IF ms = <<>> THEN <<>>
    ELSE [j \in 1..Len(Head(ms).items) |-> Head(ms).items[j].m] \o AllMetrics(Tail(ms))

(***************************************************************************)
(* collector.py: MetricsRegistry                                           *)
(***************************************************************************)
None == <<>>

\* a call: base is the _base_labels of the wrapper object it is made on
Call(op, name, value, metric_type, help_text, labels) ==
    [op |-> op, name |-> name, value |-> value, metric_type |-> metric_type,
     help_text |-> help_text, labels |-> labels, base |-> <<>>,
     content |-> <<>>, honor_labels |-> FALSE]

NoCall == Call("none", <<>>, Num(0, FALSE), "gauge", <<>>, <<>>)

Result(c, status, val) == [op |-> c.op, args |-> c, status |-> status, val |-> val]

NoResult == Result(NoCall, "ok", None)

NoIter == [i |-> 0, j |-> 0, outer |-> 0, inner |-> 0, live |-> FALSE, names |-> <<>>]

\* the statement a call starts at
Entry(op) ==
    CASE op = "register"          -> "register_lock"
      [] op = "set"               -> "set_lock"
      [] op = "observe"           -> "set_lock"
      [] op = "Gauge"             -> "register_lock"
      [] op = "Gauge.set"         -> "set_lock"
      [] op = "Gauge.inc"         -> "gauge_get"
      [] op = "Gauge.dec"         -> "gauge_get"
      [] op = "inc"               -> "inc_lock"
      [] op = "get_metric"        -> "get_metric"
      [] op = "get_all_metrics"   -> "gam_lock"
      [] op = "export_prometheus" -> "export_sort"
      [] op = "scrape_parse"      -> "parse_line"
      [] op = "scrape_target"     -> "fetch"

\* a thread calls a catalog operation
Invoke(t, c) ==
    /\ pc[t] = "idle"
    /\ ncalls < MaxCalls
    /\ pc' = [pc EXCEPT ![t] = Entry(c.op)]
    /\ call' = [call EXCEPT ![t] = c]
    /\ ret' = [ret EXCEPT ![t] = NoResult]
    /\ out' = [out EXCEPT ![t] = <<>>]
    /\ iter' = [iter EXCEPT ![t] = NoIter]
    /\ ncalls' = ncalls + 1
    /\ UNCHANGED <<series, metrics, lock, snap, wrappers>>

\* the call of thread t ends: normally, or with an exception
Finish(t, status, val) ==
    /\ pc' = [pc EXCEPT ![t] = "idle"]
    /\ ret' = [ret EXCEPT ![t] = Result(call[t], status, val)]
    /\ call' = [call EXCEPT ![t] = NoCall]

\* Acquire with a lock that excludes nobody
AcquireNoExclusion(t) ==
    /\ pc[t] \in {"register_lock", "set_lock", "inc_lock", "gam_lock"}
    /\ lock' = t
    /\ pc' = [pc EXCEPT ![t] =
                CASE pc[t] = "register_lock" -> "register_body"
                  [] pc[t] = "set_lock"      -> "set_body"
                  [] pc[t] = "inc_lock"      -> "inc_body"
                  [] pc[t] = "gam_lock"      -> "gam_next"]
    /\ iter' = [iter EXCEPT ![t] =
                  IF pc[t] = "gam_lock"
                  THEN [i |-> 1, j |-> 1, outer |-> Len(metrics),
                        inner |-> IF metrics = <<>> THEN 0 ELSE Len(metrics[1].items),
                        live |-> TRUE, names |-> <<>>]
                  ELSE @]
    /\ snap' = [snap EXCEPT ![t] = IF pc[t] = "gam_lock" THEN AllMetrics(metrics) ELSE @]
    /\ UNCHANGED <<series, metrics, call, ret, out, wrappers, ncalls>>

\* `with self._lock:` -- threading.Lock is not reentrant: it is taken only when free
Acquire(t) ==
    /\ pc[t] \in {"register_lock", "set_lock", "inc_lock", "gam_lock"}
    /\ lock = NoThread
    /\ lock' = t
    /\ pc' = [pc EXCEPT ![t] =
                CASE pc[t] = "register_lock" -> "register_body"
                  [] pc[t] = "set_lock"      -> "set_body"
                  [] pc[t] = "inc_lock"      -> "inc_body"
                  [] pc[t] = "gam_lock"      -> "gam_next"]
    /\ iter' = [iter EXCEPT ![t] =
                  IF pc[t] = "gam_lock"
                  THEN [i |-> 1, j |-> 1, outer |-> Len(metrics),
                        inner |-> IF metrics = <<>> THEN 0 ELSE Len(metrics[1].items),
                        live |-> TRUE, names |-> <<>>]
                  ELSE @]
    /\ snap' = [snap EXCEPT ![t] = IF pc[t] = "gam_lock" THEN AllMetrics(metrics) ELSE @]
    /\ UNCHANGED <<series, metrics, call, ret, out, wrappers, ncalls>>

\* Gauge.__init__: the object made by Gauge(name, help_text, labels)
Gauge(name, labels) == [cls |-> "Gauge", name |-> name, base |-> labels]

\* Gauge.set: the labels handed to registry.set are `labels or self._base_labels`
GaugeLabels(labels, base) == IF labels # <<>> THEN labels ELSE base

\* the labels argument that reaches the registry method
CallLabels(c) ==
    IF c.op \in {"Gauge.set", "Gauge.inc", "Gauge.dec"} THEN GaugeLabels(c.labels, c.base)
    ELSE c.labels

\* the body of register: a new name gets its series, a known name keeps it
Registered(ss, name, metric_type, help_text, labels) ==
    IF name \notin DOMAIN ss
    THEN [n \in DOMAIN ss \cup {name} |->
            IF n = name THEN MetricSeries(name, metric_type, help_text, labels) ELSE ss[n]]
    ELSE ss

\* register that replaces the series of a name already registered
register_overwrite(t) ==
    /\ pc[t] = "register_body"
    /\ LET c == call[t]
       IN  /\ series' = [n \in DOMAIN series \cup {c.name} |->
                            IF n = c.name
                            THEN MetricSeries(c.name, c.metric_type, c.help_text, c.labels)
                            ELSE series[n]]
           /\ Finish(t, "ok", <<series'[c.name]>>)
           /\ wrappers' = IF c.op = "Gauge" THEN wrappers \cup {Gauge(c.name, c.labels)} ELSE wrappers
    /\ lock' = NoThread
    /\ UNCHANGED <<metrics, iter, out, snap, ncalls>>

\* MetricsRegistry.register, inside the lock (Gauge.__init__ registers its name
\* as a gauge and keeps its labels as the object's base labels)
register(t) ==
    /\ pc[t] = "register_body"
    /\ LET c == call[t]
       IN  /\ series' = Registered(series, c.name, c.metric_type, c.help_text, c.labels)
           /\ Finish(t, "ok", <<series'[c.name]>>)
           /\ wrappers' = IF c.op = "Gauge" THEN wrappers \cup {Gauge(c.name, c.labels)} ELSE wrappers
    /\ lock' = NoThread
    /\ UNCHANGED <<metrics, iter, out, snap, ncalls>>

\* set that creates the Sample of an unregistered name silently, as a gauge
set_unchecked(t) ==
    /\ pc[t] = "set_body"
    /\ LET c == call[t]
           s == IF c.name \in DOMAIN series THEN series[c.name]
                ELSE MetricSeries(c.name, "gauge", <<>>, <<>>)
       IN  /\ metrics' = Store(metrics, c.name, labels_key(CallLabels(c)),
                               Metric(c.name, c.value, s.metric_type, CallLabels(c), s.help_text))
           /\ Finish(t, "ok", None)
    /\ lock' = NoThread
    /\ UNCHANGED <<series, iter, out, snap, wrappers, ncalls>>

\* MetricsRegistry.set, inside the lock
set(t) ==
    /\ pc[t] = "set_body"
    /\ LET c == call[t]
       IN  IF c.name \notin DOMAIN series
           THEN /\ Finish(t, "ValueError", None)
                /\ UNCHANGED metrics
           ELSE /\ metrics' = Store(metrics, c.name, labels_key(CallLabels(c)),
                                    Metric(c.name, c.value, series[c.name].metric_type,
                                           CallLabels(c), series[c.name].help_text))
                /\ Finish(t, "ok", None)
    /\ lock' = NoThread
    /\ UNCHANGED <<series, iter, out, snap, wrappers, ncalls>>

\* MetricsRegistry.inc, inside the lock; with no Sample at the key it calls
\* self.set while still holding the lock
inc(t) ==
    /\ pc[t] = "inc_body"
    /\ LET c   == call[t]
           key == labels_key(c.labels)
           ms  == Touch(metrics, c.name)
           i   == NameIndex(ms, c.name)
           j   == KeyIndex(ms[i].items, key)
       IN  IF c.name \notin DOMAIN series
           THEN /\ Finish(t, "ValueError", None)
                /\ lock' = NoThread
                /\ UNCHANGED metrics
           ELSE IF j # 0
           THEN /\ metrics' = [ms EXCEPT ![i].items[j].m.value = NumAdd(@, c.value)]
                /\ Finish(t, "ok", None)
                /\ lock' = NoThread
           ELSE /\ metrics' = ms
                /\ pc' = [pc EXCEPT ![t] = "set_lock"]
                /\ UNCHANGED <<lock, call, ret>>
    /\ UNCHANGED <<series, iter, out, snap, wrappers, ncalls>>

\* MetricsRegistry.get_metric: a lookup that takes no lock
get_metric(t) ==
    /\ pc[t] = "get_metric"
    /\ LET items == Items(metrics, call[t].name)
           j     == KeyIndex(items, labels_key(call[t].labels))
       IN  Finish(t, "ok", IF j = 0 THEN None ELSE <<items[j].m>>)
    /\ UNCHANGED <<series, metrics, lock, iter, out, snap, wrappers, ncalls>>

\* Gauge.inc up to its call of registry.set: get_metric reads the Sample
\* without the lock, current is its value or 0, and registry.set is entered
\* with current + value (dec is inc of -value). out keeps the delta asked for.
Gauge_inc(t) ==
    /\ pc[t] = "gauge_get"
    /\ LET c       == call[t]
           items   == Items(metrics, c.name)
           j       == KeyIndex(items, labels_key(CallLabels(c)))
           current == IF j = 0 THEN Num(0, FALSE) ELSE items[j].m.value
           value   == IF c.op = "Gauge.dec" THEN Num(0 - c.value.n, c.value.isfloat) ELSE c.value
       IN  /\ call' = [call EXCEPT ![t].value = NumAdd(current, value)]
           /\ out' = [out EXCEPT ![t] = <<value>>]
           /\ pc' = [pc EXCEPT ![t] = "set_lock"]
    /\ UNCHANGED <<series, metrics, lock, ret, iter, snap, wrappers, ncalls>>

\* the two nested dict iterators of get_all_metrics advance to the next Metric:
\* a dict iterator raises RuntimeError when its dict changed size, the inner
\* one is replaced by that of the next name when it is exhausted
RECURSIVE GamAdvance(_, _)
GamAdvance(ms, it) ==
    IF it.i > it.outer
    THEN [kind |-> "done", it |-> it]
    ELSE IF Len(ms[it.i].items) # it.inner
    THEN [kind |-> "error", it |-> it]
    ELSE IF it.j <= it.inner
    THEN [kind |-> "yield", it |-> [it EXCEPT !.j = @ + 1]]
    ELSE IF Len(ms) # it.outer
    THEN [kind |-> "error", it |-> it]
    ELSE IF it.i + 1 > it.outer
    THEN [kind |-> "done", it |-> it]
    ELSE GamAdvance(ms, [it EXCEPT !.i = @ + 1, !.j = 1, !.inner = Len(ms[it.i + 1].items)])

\* MetricsRegistry.get_all_metrics: the generator, resumed for its next item
\* inside `with self._lock`; the lock is released when the generator ends
get_all_metrics(t) ==
    /\ pc[t] = "gam_next"
    /\ LET a == GamAdvance(metrics, iter[t])
       IN  CASE a.kind = "yield" ->
                  /\ out' = [out EXCEPT ![t] = Append(@, metrics[a.it.i].items[a.it.j - 1].m)]
                  /\ iter' = [iter EXCEPT ![t] = a.it]
                  /\ UNCHANGED <<pc, call, ret, lock>>
             [] a.kind = "done" ->
                  /\ Finish(t, "ok", out[t])
                  /\ out' = [out EXCEPT ![t] = <<>>]
                  /\ iter' = [iter EXCEPT ![t] = NoIter]
                  /\ lock' = NoThread
             [] a.kind = "error" ->
                  /\ Finish(t, "RuntimeError", out[t])
                  /\ out' = [out EXCEPT ![t] = <<>>]
                  /\ iter' = [iter EXCEPT ![t] = NoIter]
                  /\ lock' = NoThread
    /\ UNCHANGED <<series, metrics, snap, wrappers, ncalls>>

(***************************************************************************)
(* collector.py: export_prometheus                                         *)
(***************************************************************************)
\* sorted(names): insertion into a list ordered by str comparison
RECURSIVE InsertName(_, _)
InsertName(n, sorted) ==
    IF sorted = <<>> THEN <<n>>
    ELSE IF StrLess(n, Head(sorted)) THEN <<n>> \o sorted
    ELSE <<Head(sorted)>> \o InsertName(n, Tail(sorted))

RECURSIVE SortedNames(_)
SortedNames(S) ==
    IF S = {} THEN <<>>
    ELSE LET n == CHOOSE x \in S : TRUE IN InsertName(n, SortedNames(S \ {n}))

HelpLine(name, s) == <<"#", " ", "H", "E", "L", "P", " ">> \o name \o <<" ">> \o s.help_text

\* MetricType.value
TypeValue(mt) ==
    CASE mt = "counter"   -> <<"c", "o", "u", "n", "t", "e", "r">>
      [] mt = "gauge"     -> <<"g", "a", "u", "g", "e">>
      [] mt = "histogram" -> <<"h", "i", "s", "t", "o", "g", "r", "a", "m">>
      [] mt = "summary"   -> <<"s", "u", "m", "m", "a", "r", "y">>

TypeLine(name, s) ==
    <<"#", " ", "T", "Y", "P", "E", " ">> \o name \o <<" ">> \o TypeValue(s.metric_type)

\* '{' + ', '.join(f'{l.name}="{l.value}"' ...) + '}', or '' without labels
LabelStr(labels) ==
    IF labels = <<>> THEN <<>>
    ELSE <<"{">> \o Join(<<",", " ">>,
                         [i \in 1..Len(labels) |->
                            labels[i].name \o <<"=", "\"">> \o labels[i].value \o <<"\"">>])
              \o <<"}">>

\* f"{name}{label_str} {metric.value}"
ValueLine(name, m) == name \o LabelStr(m.labels) \o <<" ">> \o StrValue(m.value)

\* sorted(self._series.items()): the names are fixed for the rest of the call
export_sort(t) ==
    /\ pc[t] = "export_sort"
    /\ iter' = [iter EXCEPT ![t] = [NoIter EXCEPT !.i = 1, !.names = SortedNames(DOMAIN series)]]
    /\ out' = [out EXCEPT ![t] = <<>>]
    /\ pc' = [pc EXCEPT ![t] = "export_name"]
    /\ UNCHANGED <<series, metrics, lock, call, ret, snap, wrappers, ncalls>>

\* one turn of the outer loop: the HELP and TYPE lines, then an iterator over
\* self._metrics.get(name, {}).values(); after the last name the lines are joined
export_name(t) ==
    /\ pc[t] = "export_name"
    /\ LET it == iter[t]
       IN  IF it.i > Len(it.names)
           THEN /\ Finish(t, "ok", Join(<<"\n">>, out[t]))
                /\ out' = [out EXCEPT ![t] = <<>>]
                /\ iter' = [iter EXCEPT ![t] = NoIter]
           ELSE LET name == it.names[it.i]
                IN  /\ out' = [out EXCEPT ![t] =
                                 @ \o <<HelpLine(name, series[name]), TypeLine(name, series[name])>>]
                    /\ iter' = [iter EXCEPT ![t] =
                                  [it EXCEPT !.j = 1,
                                             !.live = NameIndex(metrics, name) # 0,
                                             !.inner = Len(Items(metrics, name))]]
                    /\ pc' = [pc EXCEPT ![t] = "export_value"]
                    /\ UNCHANGED <<call, ret>>
    /\ UNCHANGED <<series, metrics, lock, snap, wrappers, ncalls>>

\* one turn of the inner loop: the next Metric of the dict under iteration
export_value(t) ==
    /\ pc[t] = "export_value"
    /\ LET it    == iter[t]
           name  == it.names[it.i]
           items == IF it.live THEN Items(metrics, name) ELSE <<>>
       IN  IF Len(items) # it.inner
           THEN /\ Finish(t, "RuntimeError", <<>>)
                /\ out' = [out EXCEPT ![t] = <<>>]
                /\ iter' = [iter EXCEPT ![t] = NoIter]
           ELSE IF it.j <= it.inner
           THEN /\ out' = [out EXCEPT ![t] = Append(@, ValueLine(name, items[it.j].m))]
                /\ iter' = [iter EXCEPT ![t].j = @ + 1]
                /\ UNCHANGED <<pc, call, ret>>
           ELSE /\ iter' = [iter EXCEPT ![t].i = @ + 1]
                /\ pc' = [pc EXCEPT ![t] = "export_name"]
                /\ UNCHANGED <<out, call, ret>>
    /\ UNCHANGED <<series, metrics, lock, snap, wrappers, ncalls>>

(***************************************************************************)
(* scrape.py: _parse_prometheus_response                                   *)
(***************************************************************************)
Whitespace == {" ", "\n"}

\* Python: c in s
Contains(s, c) == \E i \in 1..Len(s) : s[i] = c

\* position of the first / last c in s (s contains c)
FirstIndex(s, c) == CHOOSE i \in 1..Len(s) : s[i] = c /\ \A k \in 1..(i - 1) : s[k] # c
LastIndex(s, c)  == CHOOSE i \in 1..Len(s) : s[i] = c /\ \A k \in (i + 1)..Len(s) : s[k] # c

\* Python: s.split(c) for a one-character separator
RECURSIVE Split(_, _)
Split(s, c) ==
    IF ~Contains(s, c) THEN <<s>>
    ELSE LET i == FirstIndex(s, c)
         IN  <<SubSeq(s, 1, i - 1)>> \o Split(SubSeq(s, i + 1, Len(s)), c)

\* Python: s.split(c, 1)
SplitOnce(s, c) ==
    IF ~Contains(s, c) THEN <<s>>
    ELSE LET i == FirstIndex(s, c) IN <<SubSeq(s, 1, i - 1), SubSeq(s, i + 1, Len(s))>>

\* Python: s.rsplit(c, 1)
RSplitOnce(s, c) ==
    IF ~Contains(s, c) THEN <<s>>
    ELSE LET i == LastIndex(s, c) IN <<SubSeq(s, 1, i - 1), SubSeq(s, i + 1, Len(s))>>

\* Python: s.strip(chars)
RECURSIVE LStripChars(_, _)
LStripChars(s, cs) ==
    IF s # <<>> /\ Head(s) \in cs THEN LStripChars(Tail(s), cs) ELSE s

RECURSIVE RStripChars(_, _)
RStripChars(s, cs) ==
    IF s # <<>> /\ s[Len(s)] \in cs THEN RStripChars(SubSeq(s, 1, Len(s) - 1), cs) ELSE s

StripChars(s, cs) == RStripChars(LStripChars(s, cs), cs)

\* Python: s.strip()
Strip(s) == StripChars(s, Whitespace)

\* Python: s.split() -- the maximal runs of non-whitespace characters
RECURSIVE SplitWs(_)
SplitWs(s) ==
    LET r == LStripChars(s, Whitespace)
    IN  IF r = <<>> THEN <<>>
        ELSE IF \E i \in 1..Len(r) : r[i] \in Whitespace
        THEN LET i == CHOOSE k \in 1..Len(r) :
                          r[k] \in Whitespace /\ \A m \in 1..(k - 1) : r[m] \notin Whitespace
             IN  <<SubSeq(r, 1, i - 1)>> \o SplitWs(SubSeq(r, i + 1, Len(r)))
        ELSE <<r>>

IsDigit(c) == \E d \in 1..10 : Digits[d] = c

DigitValue(c) == (CHOOSE d \in 1..10 : Digits[d] = c) - 1

RECURSIVE NatValue(_)
NatValue(ds) == IF ds = <<>> THEN 0 ELSE 10 * NatValue(SubSeq(ds, 1, Len(ds) - 1)) + DigitValue(ds[Len(ds)])

AllDigits(ds) == \A i \in 1..Len(ds) : IsDigit(ds[i])

\* Python: float(s) for decimal literals -- optional sign, digits, optional
\* fraction.  The values in use are whole numbers, so a whole part with an
\* all-zero fraction is accepted; anything else raises ValueError.
ParseFloat(s) ==
    LET r    == Strip(s)
        neg  == r # <<>> /\ Head(r) = "-"
        u    == IF neg THEN Tail(r) ELSE r
        p    == SplitOnce(u, ".")
        whole == p[1]
        frac  == IF Len(p) = 2 THEN p[2] ELSE <<>>
        ok    == /\ AllDigits(whole) /\ AllDigits(frac)
                 /\ (whole # <<>> \/ frac # <<>>)
                 /\ \A i \in 1..Len(frac) : frac[i] = "0"
    IN  IF ok
        THEN [ok |-> TRUE, value |-> Num(IF neg THEN 0 - NatValue(whole) ELSE NatValue(whole), TRUE)]
        ELSE [ok |-> FALSE, value |-> Num(0, TRUE)]

\* a scrape target, as far as the parser reads it: labels is the list
\* target.labels.items()
ScrapeTarget(labels, honor_labels) == [labels |-> labels, honor_labels |-> honor_labels]

\* the loop over labels_part.split(","): each part holding "=" gives a label
RECURSIVE ParseLabels(_)
ParseLabels(parts) ==
    IF parts = <<>> THEN <<>>
    ELSE LET kv == SplitOnce(Head(parts), "=")
         IN  (IF Len(kv) = 2
              THEN <<Label(Strip(kv[1]), StripChars(kv[2], {"\""}))>>
              ELSE <<>>) \o ParseLabels(Tail(parts))

Skipped == [ok |-> FALSE, name |-> <<>>, value |-> Num(0, TRUE), labels |-> <<>>]

\* ParseLine keeping the static labels whatever honor_labels says
ParseLine_static_kept(raw, target) ==
    LET line   == Strip(raw)
        static == target.labels
    IN  IF line = <<>> \/ Head(line) = "#" THEN Skipped
        ELSE IF Contains(line, "{")
        THEN LET nv == SplitOnce(line, "{")
                 lv == RSplitOnce(nv[2], "}")
             IN  IF Len(lv) # 2 THEN Skipped
                 ELSE IF ~ParseFloat(lv[2]).ok THEN Skipped
                 ELSE [ok |-> TRUE, name |-> Strip(nv[1]), value |-> ParseFloat(lv[2]).value,
                       labels |-> static \o ParseLabels(Split(lv[1], ","))]
        ELSE LET parts == SplitWs(line)
             IN  IF Len(parts) < 2 THEN Skipped
                 ELSE IF ~ParseFloat(parts[2]).ok THEN Skipped
                 ELSE [ok |-> TRUE, name |-> parts[1], value |-> ParseFloat(parts[2]).value,
                       labels |-> static]

\* one turn of the loop of _parse_prometheus_response up to `metrics[name] =
\* value`: the sample of a line, or Skipped for a blank line, a comment, a
\* line with fewer than two fields and a line that raises while being parsed
ParseLine(raw, target) ==
    LET line   == Strip(raw)
        static == IF target.honor_labels THEN <<>> ELSE target.labels
    IN  IF line = <<>> \/ Head(line) = "#" THEN Skipped
        ELSE IF Contains(line, "{")
        THEN LET nv == SplitOnce(line, "{")
                 lv == RSplitOnce(nv[2], "}")
             IN  IF Len(lv) # 2 THEN Skipped
                 ELSE IF ~ParseFloat(lv[2]).ok THEN Skipped
                 ELSE [ok |-> TRUE, name |-> Strip(nv[1]), value |-> ParseFloat(lv[2]).value,
                       labels |-> static \o ParseLabels(Split(lv[1], ","))]
        ELSE LET parts == SplitWs(line)
             IN  IF Len(parts) < 2 THEN Skipped
                 ELSE IF ~ParseFloat(parts[2]).ok THEN Skipped
                 ELSE [ok |-> TRUE, name |-> parts[1], value |-> ParseFloat(parts[2]).value,
                       labels |-> static]

\* the samples of a response body, line by line
ParseLines(content, target) ==
    LET lines == Split(content, "\n")
        ps    == [i \in 1..Len(lines) |-> ParseLine(lines[i], target)]
    IN  SelectSeq(ps, LAMBDA p : p.ok)

\* the dict returned by _parse_prometheus_response: metrics[name] = value for
\* each parsed sample, a later line of a name replacing the earlier value
RECURSIVE ParsedDict(_)
ParsedDict(samples) ==
    IF samples = <<>> THEN <<>>
    ELSE LET d == ParsedDict(SubSeq(samples, 1, Len(samples) - 1))
             p == samples[Len(samples)]
         IN  IF \E i \in 1..Len(d) : d[i].name = p.name
             THEN [i \in 1..Len(d) |-> IF d[i].name = p.name THEN [d[i] EXCEPT !.value = p.value] ELSE d[i]]
             ELSE Append(d, [name |-> p.name, value |-> p.value])

(***************************************************************************)
(* storage/backend.py: MemoryStorage and SQLiteStorage                     *)
(***************************************************************************)
\* MemoryStorage.__init__: the default retention window, in hours
retention_hours == 24

\* the names backend.py imports from the datetime module
DatetimeImports == {"datetime", "timedelta"}

DataPoint(timestamp, value) == [timestamp |-> timestamp, value |-> value]

\* a Metric together with its timestamp field (default: the time it is built)
Stamped(m, ts) ==
    [name |-> m.name, value |-> m.value, metric_type |-> m.metric_type,
     labels |-> m.labels, help_text |-> m.help_text, timestamp |-> ts]

\* the backend object: _data of a MemoryStorage (insertion-ordered key ->
\* list of DataPoint), the rows of table metrics of a SQLiteStorage
MemoryStorage == [cls |-> "MemoryStorage", data |-> <<>>, rows |-> <<>>]
SQLiteStorage == [cls |-> "SQLiteStorage", data |-> <<>>, rows |-> <<>>]

\* datetime.isoformat() / datetime.fromisoformat(): zero-padded fields of
\* fixed width, so that text order is time order
IsoFormat(ts) == <<Digits[((ts \div 10) % 10) + 1], Digits[(ts % 10) + 1]>>
FromIsoFormat(s) == NatValue(s)

\* the key a Metric is stored under: f"{metric.name}:{metric.labels_key}"
StorageKey(m) == m.name \o <<":">> \o labels_key(m.labels)

\* self._data[key].append(point) on the defaultdict(list)
AppendPoint(data, key, point) ==
    LET j == KeyIndex(data, key)
    IN  IF j = 0 THEN Append(data, [key |-> key, points |-> <<point>>])
        ELSE [data EXCEPT ![j].points = Append(@, point)]

\* _cleanup: the cutoff is datetime.now(timezone.utc) - self._retention, and
\* evaluating the name timezone raises NameError unless the module imports it
cleanup(data, key, clock) ==
    IF "timezone" \notin DatetimeImports
    THEN [raised |-> "NameError", data |-> data]
    ELSE LET cutoff == clock - retention_hours
             j      == KeyIndex(data, key)
         IN  [raised |-> "none",
              data |-> [data EXCEPT ![j].points =
                           SelectSeq(@, LAMBDA dp : dp.timestamp > cutoff)]]

\* MemoryStorage.write: append under the lock, then _cleanup of the key; an
\* exception raised by _cleanup leaves write after the append
MemoryStorage_write(st, m, clock) ==
    LET key      == StorageKey(m)
        appended == AppendPoint(st.data, key, DataPoint(m.timestamp, m.value))
        c        == cleanup(appended, key, clock)
    IN  [storage |-> [st EXCEPT !.data = c.data],
         status |-> IF c.raised = "none" THEN "ok" ELSE c.raised]

\* MemoryStorage.read: the points of every key that starts with f"{name}:",
\* key after key in dict order; a label filter skips every matching key
RECURSIVE MemoryStorage_read(_, _, _, _, _)
MemoryStorage_read(data, name, start, end, labels) ==
    IF data = <<>> THEN <<>>
    ELSE (IF StartsWith(Head(data).key, name \o <<":">>) /\ labels = <<>>
          THEN SelectSeq(Head(data).points,
                         LAMBDA p : start <= p.timestamp /\ p.timestamp <= end)
          ELSE <<>>) \o MemoryStorage_read(Tail(data), name, start, end, labels)

\* list(set(...)): each element once (in the order of first occurrence here;
\* Python leaves the order of a set open)
RECURSIVE Distinct(_)
Distinct(s) ==
    IF s = <<>> THEN <<>>
    ELSE LET d == Distinct(SubSeq(s, 1, Len(s) - 1))
         IN  IF \E i \in 1..Len(d) : d[i] = s[Len(s)] THEN d ELSE Append(d, s[Len(s)])

\* MemoryStorage.get_series_names: key.split(":")[0] of every key
MemoryStorage_get_series_names(data) ==
    Distinct([i \in 1..Len(data) |-> Split(data[i].key, ":")[1]])

\* SQLiteStorage.write: INSERT INTO metrics (name, labels, value, timestamp)
SQLiteStorage_write(st, m) ==
    [storage |-> [st EXCEPT !.rows = Append(@, [name |-> m.name, labels |-> labels_key(m.labels),
                                                value |-> Num(m.value.n, TRUE),
                                                timestamp |-> IsoFormat(m.timestamp)])],
     status |-> "ok"]

\* text comparison of SQLite: a <= b
TextLeq(a, b) == a = b \/ StrLess(a, b)

\* ORDER BY timestamp: rows in the order of their timestamp text
RECURSIVE OrderByTimestamp(_)
OrderByTimestamp(rows) ==
    IF rows = <<>> THEN <<>>
    ELSE LET rest == OrderByTimestamp(SubSeq(rows, 1, Len(rows) - 1))
             r    == rows[Len(rows)]
             k    == Cardinality({i \in 1..Len(rest) : TextLeq(rest[i].timestamp, r.timestamp)})
         IN  SubSeq(rest, 1, k) \o <<r>> \o SubSeq(rest, k + 1, Len(rest))

\* SQLiteStorage.read: SELECT timestamp, value FROM metrics WHERE name = ?
\* AND timestamp BETWEEN ? AND ? ORDER BY timestamp
SQLiteStorage_read(rows, name, start, end) ==
    LET sel == SelectSeq(rows, LAMBDA r : /\ r.name = name
                                          /\ TextLeq(IsoFormat(start), r.timestamp)
                                          /\ TextLeq(r.timestamp, IsoFormat(end)))
        ord == OrderByTimestamp(sel)
    IN  [i \in 1..Len(ord) |-> DataPoint(FromIsoFormat(ord[i].timestamp), ord[i].value)]

\* SQLiteStorage.get_series_names: SELECT DISTINCT name FROM metrics
SQLiteStorage_get_series_names(rows) == Distinct([i \in 1..Len(rows) |-> rows[i].name])

\* outcome of a call on the backend
StoreResult(op, args, status, val) == [op |-> op, args |-> args, status |-> status, val |-> val]

NoStoreResult == StoreResult("none", <<>>, "ok", None)

\* await storage.write(metric), on whichever backend is configured
StorageWrite(st, m, clock) ==
    IF st.cls = "MemoryStorage" THEN MemoryStorage_write(st, m, clock)
    ELSE SQLiteStorage_write(st, m)

write(m) ==
    /\ Len(written) < MaxWrites
    /\ storage' = StorageWrite(storage, m, now).storage
    /\ written' = Append(written, m)
    /\ sres' = StoreResult("write", m, StorageWrite(storage, m, now).status, None)
    /\ UNCHANGED now

\* await storage.read(name, start, end, labels)
read(name, start, end, labels) ==
    /\ sres' = StoreResult("read", [name |-> name, start |-> start, end |-> end, labels |-> labels],
                           "ok",
                           IF storage.cls = "MemoryStorage"
                           THEN MemoryStorage_read(storage.data, name, start, end, labels)
                           ELSE SQLiteStorage_read(storage.rows, name, start, end))
    /\ UNCHANGED <<storage, now, written>>

\* await storage.get_series_names()
get_series_names ==
    /\ sres' = StoreResult("get_series_names", <<>>, "ok",
                           IF storage.cls = "MemoryStorage"
                           THEN MemoryStorage_get_series_names(storage.data)
                           ELSE SQLiteStorage_get_series_names(storage.rows))
    /\ UNCHANGED <<storage, now, written>>

\* time passes
Tick ==
    /\ now + TickHours <= MaxTicks * TickHours
    /\ now' = now + TickHours
    /\ UNCHANGED <<storage, written, sres>>

\* ScrapeResult, as far as scrape_target fills it
ScrapeResult(success, status_code, error, metrics_count, parsed) ==
    [success |-> success, status_code |-> status_code, error |-> error,
     metrics_count |-> metrics_count, metrics |-> parsed]

\* the loop without its try/except and with the write first: an exception
\* of the write ends the parse and nothing of the line reaches the catalog
parse_line_unguarded(t) ==
    /\ pc[t] = "parse_line"
    /\ LET c      == call[t]
           lines  == Split(c.content, "\n")
           i      == iter[t].i + 1
           p      == ParseLine(lines[i], ScrapeTarget(c.labels, c.honor_labels))
           ss     == Registered(series, p.name, "gauge", <<>>, p.labels)
           metric == Stamped(Metric(p.name, p.value, "gauge", p.labels, <<>>), now)
           w      == StorageWrite(storage, metric, now)
       IN  IF i > Len(lines)
           THEN /\ Finish(t, "ok",
                       IF c.op = "scrape_target"
                       THEN ScrapeResult(TRUE, c.value.n, <<>>,
                                         Len(ParsedDict(out[t])), ParsedDict(out[t]))
                       ELSE ParsedDict(out[t]))
                /\ UNCHANGED <<series, metrics, iter, out, storage, written, sres>>
           ELSE IF ~p.ok
           THEN /\ iter' = [iter EXCEPT ![t].i = i]
                /\ UNCHANGED <<series, metrics, pc, call, ret, out, storage, written, sres>>
           ELSE IF w.status # "ok"
           THEN /\ Finish(t, w.status, None)
                /\ storage' = w.storage
                /\ written' = Append(written, metric)
                /\ sres' = StoreResult("write", metric, w.status, None)
                /\ UNCHANGED <<series, metrics, iter, out>>
           ELSE /\ lock = NoThread
                /\ series' = ss
                /\ metrics' = Store(metrics, p.name, labels_key(p.labels),
                                    Metric(p.name, p.value, ss[p.name].metric_type,
                                           p.labels, ss[p.name].help_text))
                /\ storage' = w.storage
                /\ written' = Append(written, metric)
                /\ sres' = StoreResult("write", metric, w.status, None)
                /\ out' = [out EXCEPT ![t] = Append(@, [name |-> p.name, value |-> p.value,
                                                       labels |-> p.labels])]
                /\ iter' = [iter EXCEPT ![t].i = i]
                /\ UNCHANGED <<pc, call, ret>>
    /\ UNCHANGED <<lock, snap, wrappers, ncalls, now>>


\* one turn of the loop of _parse_prometheus_response: a parsed line is
\* registered as a gauge and set in the catalog (each under the mutex, which
\* must be free), then written to the store as a Metric stamped with the
\* current time, an exception of the write being swallowed by `except
\* Exception: continue`; after the last line the dict is returned.
parse_line(t) ==
    /\ pc[t] = "parse_line"
    /\ LET c      == call[t]
           lines  == Split(c.content, "\n")
           i      == iter[t].i + 1
           p      == ParseLine(lines[i], ScrapeTarget(c.labels, c.honor_labels))
           ss     == Registered(series, p.name, "gauge", <<>>, p.labels)
           metric == Stamped(Metric(p.name, p.value, "gauge", p.labels, <<>>), now)
           w      == StorageWrite(storage, metric, now)
       IN  IF i > Len(lines)
           THEN /\ Finish(t, "ok",
                       IF c.op = "scrape_target"
                       THEN ScrapeResult(TRUE, c.value.n, <<>>,
                                         Len(ParsedDict(out[t])), ParsedDict(out[t]))
                       ELSE ParsedDict(out[t]))
                /\ UNCHANGED <<series, metrics, iter, out, storage, written, sres>>
           ELSE IF ~p.ok
           THEN /\ iter' = [iter EXCEPT ![t].i = i]
                /\ UNCHANGED <<series, metrics, pc, call, ret, out, storage, written, sres>>
           ELSE /\ lock = NoThread
                /\ series' = ss
                /\ metrics' = Store(metrics, p.name, labels_key(p.labels),
                                    Metric(p.name, p.value, ss[p.name].metric_type,
                                           p.labels, ss[p.name].help_text))
                /\ storage' = w.storage
                /\ written' = Append(written, metric)
                /\ sres' = StoreResult("write", metric, w.status, None)
                /\ out' = [out EXCEPT ![t] = Append(@, [name |-> p.name, value |-> p.value,
                                                       labels |-> p.labels])]
                /\ iter' = [iter EXCEPT ![t].i = i]
                /\ UNCHANGED <<pc, call, ret>>
    /\ UNCHANGED <<lock, snap, wrappers, ncalls, now>>

\* what `await self._client.get(url, ...)` does: it returns a response or
\* raises
Response(status_code, content_type, text) ==
    [kind |-> "response", status_code |-> status_code, content_type |-> content_type,
     text |-> text]
Raised(kind) == [kind |-> kind, status_code |-> 0, content_type |-> <<>>, text |-> <<>>]

TextPlain == <<"t", "e", "x", "t", "/", "p", "l", "a", "i", "n">>
ApplicationJson == <<"a", "p", "p", "l", "i", "c", "a", "t", "i", "o", "n", "/", "j", "s", "o", "n">>

\* Python: `sub in s`
RECURSIVE Find(_, _)
Find(s, sub) ==
    IF Len(s) < Len(sub) THEN FALSE
    ELSE StartsWith(s, sub) \/ Find(Tail(s), sub)

\* scrape_target: the fetch and what follows it.  A 200 response of a text
\* content type is handed to the parser, which ends the call with the
\* result; every other outcome ends it here.
scrape_target(t, r) ==
    /\ pc[t] = "fetch"
    /\ IF r.kind = "response" /\ r.status_code = 200
          /\ (Find(r.content_type, TextPlain)
              \/ Find(r.content_type, <<"a", "p", "p", "l", "i", "c", "a", "t", "i", "o", "n", "/", "o", "p", "e", "n", "m", "e", "t", "r", "i", "c", "s">>))
       THEN /\ pc' = [pc EXCEPT ![t] = "parse_line"]
            /\ call' = [call EXCEPT ![t].content = r.text,
                                    ![t].value = Num(r.status_code, FALSE)]
            /\ UNCHANGED ret
       ELSE Finish(t, "ok",
                   CASE r.kind = "response" ->
                            ScrapeResult(r.status_code = 200, r.status_code, <<>>, 0, <<>>)
                     [] r.kind = "timeout" ->
                            ScrapeResult(FALSE, 0, <<"t", "i", "m", "e", "o", "u", "t">>, 0, <<>>)
                     [] r.kind = "connect_error" ->
                            ScrapeResult(FALSE, 0, <<"c", "o", "n", "n", "e", "c", "t", "i", "o", "n", "_", "r", "e", "f", "u", "s", "e", "d">>, 0, <<>>)
                     [] OTHER ->
                            ScrapeResult(FALSE, 0, <<"e", "r", "r", "o", "r">>, 0, <<>>))
    /\ UNCHANGED <<series, metrics, lock, iter, out, snap, wrappers, ncalls>>

(***************************************************************************)
(* Callers                                                                 *)
(***************************************************************************)
\* a thread that runs no code of the scrape engine
NoCycle == [n |-> 0, response |-> <<>>, incs |-> <<>>, parsed |-> <<>>, last_status |-> "unknown",
            target |-> <<>>, untracked |-> 0]

NameX == <<"x">>
NameC == <<"c">>

LabelA1 == Label(<<"a">>, <<"1">>)
LabelA2 == Label(<<"a">>, <<"2">>)
LabelB2 == Label(<<"b">>, <<"2">>)
\* a label whose value holds the characters the key is joined with
LabelAComma == Label(<<"a">>, <<"1", ",", "b", "=", "2">>)

Values == {Num(n, FALSE) : n \in 1..MaxValue}

\* the default delta of inc: the float 1.0
DefaultDelta == Num(1, TRUE)

\* calls made by concurrently running threads
ThreadCalls ==
    {Call("register", NameX, Num(0, FALSE), "counter", <<"h">>, <<>>),
     Call("register", NameX, Num(0, FALSE), "gauge", <<>>, <<>>),
     Call("observe", NameX, Num(1, FALSE), "gauge", <<>>, <<>>),
     Call("get_metric", NameX, Num(0, FALSE), "gauge", <<>>, <<>>),
     Call("get_all_metrics", <<>>, Num(0, FALSE), "gauge", <<>>, <<>>),
     Call("export_prometheus", <<>>, Num(0, FALSE), "gauge", <<>>, <<>>)}
    \cup {Call("set", NameX, v, "gauge", <<>>, ls) : v \in Values, ls \in {<<>>, <<LabelA1>>}}
    \cup {Call("inc", NameX, DefaultDelta, "gauge", <<>>, ls) : ls \in {<<>>, <<LabelA1>>}}

LabelLists ==
    {<<>>, <<LabelA1>>, <<LabelB2>>, <<LabelA1, LabelB2>>, <<LabelB2, LabelA1>>,
     <<LabelA1, LabelA2>>, <<LabelA2, LabelA1>>, <<LabelAComma>>}

\* the thread of the sequential caller
Main == "t1"

\* calls made by one sequential caller
MainCalls ==
    {Call("register", NameX, Num(0, FALSE), "counter", <<"h">>, <<>>),
     Call("register", NameC, Num(0, FALSE), "gauge", <<>>, <<>>),
     Call("observe", NameX, Num(1, FALSE), "gauge", <<>>, <<>>),
     Call("get_all_metrics", <<>>, Num(0, FALSE), "gauge", <<>>, <<>>),
     Call("export_prometheus", <<>>, Num(0, FALSE), "gauge", <<>>, <<>>)}
    \cup {Call("Gauge", NameX, Num(0, FALSE), "gauge", <<>>, ls) : ls \in {<<>>, <<LabelA1>>}}
    \cup {Call("set", NameX, v, "gauge", <<>>, ls) : v \in Values, ls \in LabelLists}
    \cup {Call("set", NameC, v, "gauge", <<>>, <<>>) : v \in Values}
    \cup {Call("inc", n, DefaultDelta, "gauge", <<>>, <<>>) : n \in {NameX, NameC}}
    \cup {Call("get_metric", NameX, Num(0, FALSE), "gauge", <<>>, ls) : ls \in LabelLists}

\* g.set(value, labels) on a Gauge object g constructed before
GaugeSetCalls ==
    {[Call("Gauge.set", g.name, v, "gauge", <<>>, ls) EXCEPT !.base = g.base] :
        g \in wrappers, v \in Values, ls \in {<<>>, <<LabelB2>>}}

\* the text last exported is served as a response body and parsed for a
\* target without static labels (endpoints.py: GET /metrics)
ParseCalls(t) ==
    IF ret[t].op = "export_prometheus" /\ ret[t].status = "ok"
    THEN {[Call("scrape_parse", <<>>, Num(0, FALSE), "gauge", <<>>, <<>>)
             EXCEPT !.content = ret[t].val]}
    ELSE {}

Init ==
    /\ series = <<>>
    /\ metrics = <<>>
    /\ lock = NoThread
    /\ pc = [t \in Threads |-> "idle"]
    /\ call = [t \in Threads |-> NoCall]
    /\ ret = [t \in Threads |-> NoResult]
    /\ iter = [t \in Threads |-> NoIter]
    /\ out = [t \in Threads |-> <<>>]
    /\ snap = [t \in Threads |-> <<>>]
    /\ wrappers = {}
    /\ ncalls = 0
    /\ storage = MemoryStorage
    /\ now = 0
    /\ written = <<>>
    /\ sres = NoStoreResult
    /\ running = FALSE
    /\ tasks = {}
    /\ wpc = [t \in Threads |-> "unstarted"]
    /\ cycle = [t \in Threads |-> NoCycle]
    /\ targets = <<>>
    /\ collecting = FALSE
    /\ loops = <<>>
    /\ collected = 0

\* one statement of the call a thread is executing
Step(t) ==
    \/ Acquire(t)
    \/ register(t)
    \/ set(t)
    \/ inc(t)
    \/ get_metric(t)
    \/ get_all_metrics(t)
    \/ export_sort(t)
    \/ export_name(t)
    \/ export_value(t)

Next ==
    \/ \E t \in Threads : \E c \in ThreadCalls : Invoke(t, c) /\ UNCHANGED <<storeVars, engineVars>>
    \/ \E t \in Threads : Step(t) /\ UNCHANGED <<storeVars, engineVars>>

Spec == Init /\ [][Next]_vars

\* one sequential caller using the catalog, its wrappers, the encoder and the parser
NextMain ==
    \/ \E c \in MainCalls \cup GaugeSetCalls \cup ParseCalls(Main) :
          Invoke(Main, c) /\ UNCHANGED <<storeVars, engineVars>>
    \/ \E t \in Threads : Step(t) /\ UNCHANGED <<storeVars, engineVars>>
    \/ parse_line(Main) /\ UNCHANGED engineVars

SpecMain == Init /\ [][NextMain]_vars

\* g.inc(value) and g.dec(value) on a Gauge object g constructed before
GaugeIncCalls ==
    {[Call(op, g.name, v, "gauge", <<>>, <<>>) EXCEPT !.base = g.base] :
        op \in {"Gauge.inc", "Gauge.dec"}, g \in wrappers, v \in Values}

\* g = Gauge("x") has been constructed
InitGauge ==
    /\ series = Registered(<<>>, NameX, "gauge", <<>>, <<>>)
    /\ metrics = <<>>
    /\ lock = NoThread
    /\ pc = [t \in Threads |-> "idle"]
    /\ call = [t \in Threads |-> NoCall]
    /\ ret = [t \in Threads |-> NoResult]
    /\ iter = [t \in Threads |-> NoIter]
    /\ out = [t \in Threads |-> <<>>]
    /\ snap = [t \in Threads |-> <<>>]
    /\ wrappers = {Gauge(NameX, <<>>)}
    /\ ncalls = 0
    /\ storage = MemoryStorage
    /\ now = 0
    /\ written = <<>>
    /\ sres = NoStoreResult
    /\ running = FALSE
    /\ tasks = {}
    /\ wpc = [t \in Threads |-> "unstarted"]
    /\ cycle = [t \in Threads |-> NoCycle]
    /\ targets = <<>>
    /\ collecting = FALSE
    /\ loops = <<>>
    /\ collected = 0

\* threads moving one gauge up and down
NextGauge ==
    \/ \E t \in Threads : \E c \in GaugeIncCalls : Invoke(t, c) /\ UNCHANGED <<storeVars, engineVars>>
    \/ \E t \in Threads : Gauge_inc(t) /\ UNCHANGED <<storeVars, engineVars>>
    \/ \E t \in Threads : Acquire(t) /\ UNCHANGED <<storeVars, engineVars>>
    \/ \E t \in Threads : set(t) /\ UNCHANGED <<storeVars, engineVars>>

SpecGauge == InitGauge /\ [][NextGauge]_vars

\* the metric names written to the store; the second holds the character the
\* key is joined with
NameXY == <<"x", ":", "y">>
StoreNames == {NameX, NameXY}

TimeStamps == {k * TickHours : k \in 0..MaxTicks}

\* init_storage(backend): either backend, empty
InitStore ==
    /\ series = <<>>
    /\ metrics = <<>>
    /\ lock = NoThread
    /\ pc = [t \in Threads |-> "idle"]
    /\ call = [t \in Threads |-> NoCall]
    /\ ret = [t \in Threads |-> NoResult]
    /\ iter = [t \in Threads |-> NoIter]
    /\ out = [t \in Threads |-> <<>>]
    /\ snap = [t \in Threads |-> <<>>]
    /\ wrappers = {}
    /\ ncalls = 0
    /\ storage \in {MemoryStorage, SQLiteStorage}
    /\ now = 0
    /\ written = <<>>
    /\ sres = NoStoreResult
    /\ running = FALSE
    /\ tasks = {}
    /\ wpc = [t \in Threads |-> "unstarted"]
    /\ cycle = [t \in Threads |-> NoCycle]
    /\ targets = <<>>
    /\ collecting = FALSE
    /\ loops = <<>>
    /\ collected = 0

\* callers of the store: metrics built at the current time are written (the
\* value numbers the writes), ranges are read and the names are listed,
\* while time passes
NextStore ==
    \/ \E n \in StoreNames, ls \in {<<>>, <<LabelA1>>} :
          write(Stamped(Metric(n, Num(Len(written) + 1, TRUE), "gauge", ls, <<>>), now))
          /\ UNCHANGED <<catalogVars, engineVars>>
    \/ \E n \in StoreNames, start \in TimeStamps, end \in TimeStamps, ls \in {<<>>, <<LabelA1>>} :
          start <= end /\ read(n, start, end, ls) /\ UNCHANGED <<catalogVars, engineVars>>
    \/ get_series_names /\ UNCHANGED <<catalogVars, engineVars>>
    \/ Tick /\ UNCHANGED <<catalogVars, engineVars>>

SpecStore == InitStore /\ [][NextStore]_vars

\* _build_targets: target.labels is {**static_config.labels, "job": job_name}
JobLabel == Label(<<"j", "o", "b">>, <<"a", "g", "e", "n", "t", "s">>)

\* the targets of one job, with either setting of honor_labels
Targets == {ScrapeTarget(<<JobLabel>>, h) : h \in BOOLEAN}

\* response bodies: the two sample lines of an agent; three lines of which
\* two share a name and the last has a bad number; a line whose label block
\* is not closed; one with a brace too many; one whose block names the label
\* job; a comment and a blank line around a sample
BodyAgent == <<"u", "p", " ", "1", "\n", "x", "{", "a", "=", "\"", "1", "\"", "}", " ", "2", "\n">>
BodyBadNumber == <<"x", "{", "a", "=", "\"", "1", "\"", "}", " ", "1", "\n", "x", "{", "a", "=", "\"", "2", "\"", "}", " ", "2", "\n", "u", "p", " ", "z">>
BodyUnclosed == <<"x", "{", "a", "=", "\"", "1", "\"", " ", "2", "\n", "u", "p", " ", "1">>
BodyExtraBrace == <<"x", "{", "{", "a", "=", "\"", "1", "\"", "}", " ", "2">>
BodyJobLabel == <<"x", "{", "j", "o", "b", "=", "\"", "z", "\"", "}", " ", "2">>
BodyComment == <<"#", " ", "c", "\n", "\n", "u", "p", " ", "1">>

Bodies == {BodyAgent, BodyBadNumber, BodyUnclosed, BodyExtraBrace, BodyJobLabel, BodyComment}

\* what a target can answer to the GET
Responses ==
    {Response(200, TextPlain, b) : b \in Bodies}
    \cup {Response(200, ApplicationJson, BodyAgent), Response(500, TextPlain, <<>>),
          Raised("timeout"), Raised("connect_error"), Raised("exception")}

\* await self.scrape_target(target)
ScrapeCalls ==
    {[Call("scrape_target", <<>>, Num(0, FALSE), "gauge", <<>>, tg.labels)
        EXCEPT !.honor_labels = tg.honor_labels] : tg \in Targets}

\* one caller scraping targets one after the other
NextParse ==
    \/ \E c \in ScrapeCalls : ncalls < MaxScrapes /\ Invoke(Main, c) /\ UNCHANGED <<storeVars, engineVars>>
    \/ \E r \in Responses : scrape_target(Main, r) /\ UNCHANGED <<storeVars, engineVars>>
    \/ parse_line(Main) /\ UNCHANGED engineVars

SpecParse == Init /\ [][NextParse]_vars

(***************************************************************************)
(* scrape.py: ScrapeManager.start / stop and the worker _scrape_thread;    *)
(* endpoints.py: ingest_metric                                             *)
(***************************************************************************)
ScrapeTotalName == <<"p", "y", "m", "o", "n", "_", "s", "c", "r", "a", "p", "e", "_", "t", "o", "t", "a", "l">>
ScrapeSuccessName == <<"p", "y", "m", "o", "n", "_", "s", "c", "r", "a", "p", "e", "_", "s", "u", "c", "c", "e", "s", "s", "_", "t", "o", "t", "a", "l">>
ScrapeFailuresName == <<"p", "y", "m", "o", "n", "_", "s", "c", "r", "a", "p", "e", "_", "f", "a", "i", "l", "u", "r", "e", "s", "_", "t", "o", "t", "a", "l">>
ScrapeDurationName == <<"p", "y", "m", "o", "n", "_", "s", "c", "r", "a", "p", "e", "_", "d", "u", "r", "a", "t", "i", "o", "n", "_", "s", "e", "c", "o", "n", "d", "s">>
UpName == <<"u", "p">>
ResponseTimeName == <<"p", "y", "m", "o", "n", "_", "r", "e", "s", "p", "o", "n", "s", "e", "_", "t", "i", "m", "e", "_", "s", "e", "c", "o", "n", "d", "s">>

\* the thread started for the one target configured, and the thread that
\* serves the HTTP API
Worker == "t1"
Api == "t2"
Worker2 == "t3"
\* the threads a start() or an add_server_target() can create, in the order
\* they are handed out
WorkerPool == <<Worker, Worker2>>
Workers == {WorkerPool[i] : i \in DOMAIN WorkerPool}
EngineThreads == Workers \cup {Api}

\* a ScrapeTarget as the engine reads it: job_name and target (the address)
EngineTarget(job_name, target) == [job_name |-> job_name, target |-> target]

AgentsJob == <<"a", "g", "e", "n", "t", "s">>

\* _build_targets: the one target of the configuration
ConfigTarget == EngineTarget(AgentsJob, <<"h", ":", "9">>)

\* the servers add_server_target is given: the configured one, and another
Servers == {[host |-> <<"h">>, agent_port |-> 9], [host |-> <<"g">>, agent_port |-> 9]}

\* f"{server['host']}:{server['agent_port']}"
Address(server) == server.host \o <<":">> \o StrNat(server.agent_port)

\* the labels of the health gauges: job and target of the worker's target
HealthLabels(target) ==
    <<Label(<<"j", "o", "b">>, target.job_name), Label(<<"t", "a", "r", "g", "e", "t">>, target.target)>>

\* ScrapeManager.__init__: the names its six wrappers register
EngineSeries ==
    LET s1 == Registered(<<>>, ScrapeTotalName, "counter", <<"T", "o", "t", "a", "l", " ", "s", "c", "r", "a", "p", "e", " ", "a", "t", "t", "e", "m", "p", "t", "s">>, <<>>)
        s2 == Registered(s1, ScrapeSuccessName, "counter", <<"S", "u", "c", "c", "e", "s", "s", "f", "u", "l", " ", "s", "c", "r", "a", "p", "e", "s">>, <<>>)
        s3 == Registered(s2, ScrapeFailuresName, "counter", <<"F", "a", "i", "l", "e", "d", " ", "s", "c", "r", "a", "p", "e", "s">>, <<>>)
        s4 == Registered(s3, ScrapeDurationName, "histogram", <<"S", "c", "r", "a", "p", "e", " ", "d", "u", "r", "a", "t", "i", "o", "n">>, <<>>)
        s5 == Registered(s4, UpName, "gauge", <<"T", "a", "r", "g", "e", "t", " ", "a", "v", "a", "i", "l", "a", "b", "i", "l", "i", "t", "y", " ", "(", "1", "=", "u", "p", ",", " ", "0", "=", "d", "o", "w", "n", ")">>, <<>>)
    IN  Registered(s5, ResponseTimeName, "gauge", <<"R", "e", "s", "p", "o", "n", "s", "e", " ", "t", "i", "m", "e", " ", "i", "n", " ", "s", "e", "c", "o", "n", "d", "s">>, <<>>)

\* what the target of the worker can answer to client.get(url)
WorkerResponses ==
    {Response(200, TextPlain, BodyAgent), Response(500, TextPlain, <<>>),
     Raised("timeout"), Raised("connect_error"), Raised("exception")}

\* the bodies POSTed to /api/v1/metrics: MetricPayload
Payloads ==
    {[name |-> n, value |-> Num(0, FALSE), type |-> "counter", help_text |-> <<>>, labels |-> <<>>] :
        n \in {ScrapeTotalName, ScrapeSuccessName, ScrapeFailuresName}}

\* a thread calls a catalog operation from its own code and goes on at next
\* once the call has returned
WorkerCall(w, c, next) ==
    /\ pc' = [pc EXCEPT ![w] = Entry(c.op)]
    /\ call' = [call EXCEPT ![w] = c]
    /\ ret' = [ret EXCEPT ![w] = NoResult]
    /\ out' = [out EXCEPT ![w] = <<>>]
    /\ iter' = [iter EXCEPT ![w] = NoIter]
    /\ wpc' = [wpc EXCEPT ![w] = next]
    /\ UNCHANGED <<series, metrics, lock, snap, wrappers, ncalls>>

\* a statement that touches no shared state
WorkerLocal(w, next) ==
    /\ wpc' = [wpc EXCEPT ![w] = next]
    /\ ret' = [ret EXCEPT ![w] = NoResult]
    /\ UNCHANGED <<series, metrics, lock, pc, call, out, iter, snap, wrappers, ncalls>>

\* the catalog call just made raised an exception
Raising(w) == ret[w].status # "ok"

\* history: the health counters whose inc has returned in this cycle
Counted(w) ==
    IF ret[w].op = "inc" /\ ret[w].status = "ok"
    THEN Append(cycle[w].incs, ret[w].args.name)
    ELSE cycle[w].incs

\* the loop over response.text of _scrape_thread: name and value of every
\* line that parses go to a local dict; labels are not kept, nothing is
\* registered, set or written
InlineParse(text) == ParsedDict(ParseLines(text, ScrapeTarget(<<>>, TRUE)))

\* any(t.target == target.target for t in self.targets)
Tracked(target) == \E i \in DOMAIN targets : targets[i].target = target.target

\* the threads of the pool that do not run: never started, or ended
FreeThreads == SelectSeq(WorkerPool, LAMBDA w : wpc[w] \in {"unstarted", "closed", "dead"})

\* threading.Thread(target=self._scrape_thread, args=(target,)); thread.start();
\* self._tasks.append(thread), for each target of tgs in order
StartThreads(tgs) ==
    LET started(t) == \E i \in 1..Len(tgs) : FreeThreads[i] = t
        arg(t) == tgs[CHOOSE i \in 1..Len(tgs) : FreeThreads[i] = t]
    IN  /\ Len(tgs) <= Len(FreeThreads)
        /\ tasks' = tasks \cup {t \in Workers : started(t)}
        /\ wpc' = [t \in DOMAIN wpc |-> IF started(t) THEN "while" ELSE wpc[t]]
        /\ cycle' = [t \in DOMAIN cycle |->
                       IF started(t)
                       THEN [cycle[t] EXCEPT !.target = arg(t), !.response = <<>>,
                                             !.incs = <<>>, !.parsed = <<>>,
                                             !.untracked = 0]
                       ELSE cycle[t]]

\* ScrapeManager.start: no-op when running, else a thread per target
start ==
    /\ IF running
       THEN UNCHANGED <<running, tasks, wpc, cycle>>
       ELSE /\ running' = TRUE
            /\ StartThreads(targets)
    /\ UNCHANGED <<collectorVars, targets, catalogVars, storeVars>>

\* ScrapeManager.stop: the flag is cleared and the list emptied (a Thread has
\* no cancel)
stop ==
    /\ running' = FALSE
    /\ tasks' = {}
    /\ UNCHANGED <<collectorVars, wpc, cycle, targets, catalogVars, storeVars>>

\* add_server_target without its `if not any(...)`: a tracked address is
\* appended again
add_server_target_unchecked(server) ==
    LET target == EngineTarget(AgentsJob, Address(server))
    IN  /\ targets' = Append(targets, target)
        /\ IF running
           THEN StartThreads(<<target>>)
           ELSE UNCHANGED <<tasks, wpc, cycle>>
        /\ UNCHANGED <<collectorVars, running, catalogVars, storeVars>>

\* ScrapeManager.add_server_target: the target is appended unless one with its
\* address is tracked, and gets a thread at once when the engine runs
add_server_target(server) ==
    LET target == EngineTarget(AgentsJob, Address(server))
    IN  /\ IF ~Tracked(target)
           THEN /\ targets' = Append(targets, target)
                /\ IF running
                   THEN StartThreads(<<target>>)
                   ELSE UNCHANGED <<tasks, wpc, cycle>>
           ELSE UNCHANGED <<targets, tasks, wpc, cycle>>
        /\ UNCHANGED <<collectorVars, running, catalogVars, storeVars>>

\* ScrapeManager.remove_target: the first target of that job and address is
\* popped from the list; nothing else is touched
remove_target(job_name, target) ==
    LET found == {i \in DOMAIN targets : targets[i].job_name = job_name /\ targets[i].target = target}
        i == CHOOSE k \in found : \A m \in found : k <= m
    IN  /\ targets' = IF found # {}
                      THEN SubSeq(targets, 1, i - 1) \o SubSeq(targets, i + 1, Len(targets))
                      ELSE targets
        /\ UNCHANGED <<collectorVars, running, tasks, wpc, cycle, catalogVars, storeVars>>

\* `while self._running:` and, when it fails, client.close(). The loop does
\* not read self.targets; untracked counts, for the claims, the cycles the
\* thread has begun in a row while its target was not in the list (none, one,
\* or more)
loop_test(w) ==
    /\ wpc[w] = "while"
    /\ pc[w] = "idle"
    /\ wpc' = [wpc EXCEPT ![w] = IF running THEN "get" ELSE "closed"]
    /\ cycle' = [cycle EXCEPT ![w].untracked =
                     IF running /\ ~Tracked(cycle[w].target)
                     THEN (IF cycle[w].untracked < 2 THEN 1 + cycle[w].untracked ELSE 2)
                     ELSE 0]
    /\ UNCHANGED <<collectorVars, running, tasks, targets, catalogVars, storeVars>>

\* response = client.get(url): a response, or one of the exceptions, which
\* leaves the try block before scrape_total.inc()
client_get(w, r) ==
    /\ wpc[w] = "get"
    /\ cycle[w].n < MaxCycles
    /\ cycle' = [cycle EXCEPT ![w].response = r, ![w].incs = <<>>, ![w].parsed = <<>>]
    /\ wpc' = [wpc EXCEPT ![w] =
                 CASE r.kind = "response" -> "inc_total"
                   [] r.kind \in {"timeout", "connect_error"} -> "except_inc"
                   [] OTHER -> "except_status"]
    /\ UNCHANGED <<collectorVars, running, tasks, targets, catalogVars, storeVars>>

\* self.scrape_total.inc()
inc_total(w) ==
    /\ wpc[w] = "inc_total"
    /\ WorkerCall(w, Call("inc", ScrapeTotalName, DefaultDelta, "counter", <<>>, <<>>), "branch")
    /\ UNCHANGED <<collectorVars, running, tasks, targets, cycle, storeVars>>

\* `if response.status_code == 200:` self.scrape_success.inc(), else
\* self.scrape_failures.inc()
branch(w) ==
    /\ wpc[w] = "branch"
    /\ pc[w] = "idle"
    /\ cycle' = [cycle EXCEPT ![w].incs = Counted(w)]
    /\ IF Raising(w) THEN WorkerLocal(w, "except_status")
       ELSE WorkerCall(w, Call("inc", IF cycle[w].response.status_code = 200
                                      THEN ScrapeSuccessName ELSE ScrapeFailuresName,
                               DefaultDelta, "counter", <<>>, <<>>), "up")
    /\ UNCHANGED <<collectorVars, running, tasks, targets, storeVars>>

\* self.up_gauge.set(1, labels) after a 200, self.up_gauge.set(0, labels)
\* after another status
up_set(w) ==
    /\ wpc[w] = "up"
    /\ pc[w] = "idle"
    /\ cycle' = [cycle EXCEPT ![w].incs = Counted(w)]
    /\ IF Raising(w) THEN WorkerLocal(w, "except_status")
       ELSE WorkerCall(w, Call("Gauge.set", UpName,
                               Num(IF cycle[w].response.status_code = 200 THEN 1 ELSE 0, FALSE),
                               "gauge", <<>>, HealthLabels(cycle[w].target)), "status")
    /\ UNCHANGED <<collectorVars, running, tasks, targets, storeVars>>

\* after a 200 the body is parsed into the local dict; _update_server_status
\* records the host as up or down; then self.response_time.set(...)
host_status(w) ==
    /\ wpc[w] = "status"
    /\ pc[w] = "idle"
    /\ IF Raising(w)
       THEN /\ WorkerLocal(w, "except_status")
            /\ UNCHANGED cycle
       ELSE /\ cycle' = [cycle EXCEPT
                           ![w].parsed = IF cycle[w].response.status_code = 200
                                         THEN InlineParse(cycle[w].response.text) ELSE <<>>,
                           ![w].last_status = IF cycle[w].response.status_code = 200
                                              THEN "up" ELSE "down"]
            /\ WorkerCall(w, Call("Gauge.set", ResponseTimeName, Num(0, TRUE), "gauge",
                                  <<>>, HealthLabels(cycle[w].target)), "sleep")
    /\ UNCHANGED <<collectorVars, running, tasks, targets, storeVars>>

\* `except httpx.TimeoutException:` / `except httpx.ConnectError:`
\* self.scrape_failures.inc()
except_inc(w) ==
    /\ wpc[w] = "except_inc"
    /\ WorkerCall(w, Call("inc", ScrapeFailuresName, DefaultDelta, "counter", <<>>, <<>>),
                  "except_status")
    /\ UNCHANGED <<collectorVars, running, tasks, targets, cycle, storeVars>>

\* the rest of the three handlers: _update_server_status(..., False, ...);
\* an exception raised inside a handler leaves the thread
except_status(w) ==
    /\ wpc[w] = "except_status"
    /\ pc[w] = "idle"
    /\ cycle' = [cycle EXCEPT ![w].incs = Counted(w), ![w].last_status = "down"]
    /\ WorkerLocal(w, IF cycle[w].response.kind \in {"timeout", "connect_error"} /\ Raising(w)
                      THEN "dead" ELSE "sleep")
    /\ UNCHANGED <<collectorVars, running, tasks, targets, storeVars>>

\* time.sleep(target.interval), after the try statement whatever its outcome
sleep(w) ==
    /\ wpc[w] = "sleep"
    /\ pc[w] = "idle"
    /\ cycle' = [cycle EXCEPT ![w].n = @ + 1]
    /\ WorkerLocal(w, "while")
    /\ UNCHANGED <<collectorVars, running, tasks, targets, storeVars>>

\* ingest_metric: registry.register(payload.name, ...)
ingest_register(p) ==
    /\ wpc[Api] = "api"
    /\ cycle[Api].n < MaxIngest
    /\ cycle' = [cycle EXCEPT ![Api].n = @ + 1, ![Api].response = p]
    /\ WorkerCall(Api, Call("register", p.name, p.value, p.type, p.help_text, p.labels),
                  "ingest_set")
    /\ UNCHANGED <<collectorVars, running, tasks, targets, storeVars>>

\* ingest_metric: registry.set(payload.name, payload.value, labels)
ingest_set ==
    /\ wpc[Api] = "ingest_set"
    /\ pc[Api] = "idle"
    /\ LET p == cycle[Api].response
       IN  WorkerCall(Api, Call("set", p.name, p.value, p.type, p.help_text, p.labels),
                      "ingest_write")
    /\ UNCHANGED <<collectorVars, running, tasks, targets, cycle, storeVars>>

\* ingest_metric: await storage.write(metric), unless set has raised
ingest_write ==
    /\ wpc[Api] = "ingest_write"
    /\ pc[Api] = "idle"
    /\ LET p == cycle[Api].response
           metric == Stamped(Metric(p.name, p.value, p.type, p.labels, p.help_text), now)
           w == StorageWrite(storage, metric, now)
       IN  IF Raising(Api) THEN UNCHANGED <<storage, written, sres>>
           ELSE /\ storage' = w.storage
                /\ written' = Append(written, metric)
                /\ sres' = StoreResult("write", metric, w.status, None)
    /\ WorkerLocal(Api, "api")
    /\ UNCHANGED <<collectorVars, running, tasks, targets, cycle, now>>

\* ScrapeManager(config) has been constructed, the API is up
InitEngine ==
    /\ series = EngineSeries
    /\ metrics = <<>>
    /\ lock = NoThread
    /\ pc = [t \in EngineThreads |-> "idle"]
    /\ call = [t \in EngineThreads |-> NoCall]
    /\ ret = [t \in EngineThreads |-> NoResult]
    /\ iter = [t \in EngineThreads |-> NoIter]
    /\ out = [t \in EngineThreads |-> <<>>]
    /\ snap = [t \in EngineThreads |-> <<>>]
    /\ wrappers = {Gauge(UpName, <<>>), Gauge(ResponseTimeName, <<>>)}
    /\ ncalls = 0
    /\ storage = MemoryStorage
    /\ now = 0
    /\ written = <<>>
    /\ sres = NoStoreResult
    /\ running = FALSE
    /\ tasks = {}
    /\ wpc = [t \in EngineThreads |-> IF t = Api THEN "api" ELSE "unstarted"]
    /\ cycle = [t \in EngineThreads |-> NoCycle]
    /\ targets = <<ConfigTarget>>
    /\ collecting = FALSE
    /\ loops = <<>>
    /\ collected = 0

\* one statement of the catalog call a thread of the engine is executing
EngineStep(t) ==
    \/ Acquire(t)
    \/ register(t)
    \/ set(t)
    \/ inc(t)

\* the engine with its configured target: it is started (again only once its
\* worker has ended) and stopped, its worker polls, the API ingests
NextEngine ==
    \/ (running \/ wpc[Worker] \in {"unstarted", "closed"}) /\ start
    \/ stop
    \/ loop_test(Worker)
    \/ \E r \in WorkerResponses : client_get(Worker, r)
    \/ inc_total(Worker)
    \/ branch(Worker)
    \/ up_set(Worker)
    \/ host_status(Worker)
    \/ except_inc(Worker)
    \/ except_status(Worker)
    \/ sleep(Worker)
    \/ \E p \in Payloads : ingest_register(p)
    \/ ingest_set
    \/ ingest_write
    \/ \E t \in {Worker, Api} : EngineStep(t) /\ UNCHANGED <<storeVars, engineVars>>

SpecEngine == InitEngine /\ [][NextEngine]_vars

\* what a target answers while the engine is managed: one answer for each way
\* out of client.get (a response, a caught timeout, any other exception)
ManageResponses == {Response(200, TextPlain, BodyAgent), Raised("timeout"), Raised("exception")}

\* the engine as its owner drives it: started and stopped at any time, targets
\* added and removed at any time, every thread it has created polling. Nothing
\* is ingested here, so no health counter has a Sample and the statements
\* after a worker's first inc (the branch on the status, the gauges, the host
\* status of an answered request) are not reached
NextManage ==
    \/ start
    \/ stop
    \/ \E server \in Servers : add_server_target(server)
    \/ \E server \in Servers : remove_target(AgentsJob, Address(server))
    \/ \E w \in Workers : loop_test(w)
    \/ \E w \in Workers : \E r \in ManageResponses : client_get(w, r)
    \/ \E w \in Workers : inc_total(w)
    \/ \E w \in Workers : except_inc(w)
    \/ \E w \in Workers : except_status(w)
    \/ \E w \in Workers : sleep(w)
    \/ \E t \in Workers : EngineStep(t) /\ UNCHANGED <<storeVars, engineVars>>

SpecManage == InitEngine /\ [][NextManage]_vars

\* a body that names a health counter of the engine
BodyHealth == <<"p", "y", "m", "o", "n", "_", "s", "c", "r", "a", "p", "e", "_", "t", "o", "t", "a", "l", " ", "2", "\n", "u", "p", " ", "1">>

\* what a target answers to the GET of scrape_target here
ScrapeResponses ==
    {Response(200, TextPlain, BodyAgent), Response(200, TextPlain, BodyHealth),
     Response(500, TextPlain, <<>>)}

\* ScrapeManager(config) has been constructed, the API is up, and get_storage()
\* returns whichever backend the configuration names
InitScrape ==
    /\ series = EngineSeries
    /\ metrics = <<>>
    /\ lock = NoThread
    /\ pc = [t \in EngineThreads |-> "idle"]
    /\ call = [t \in EngineThreads |-> NoCall]
    /\ ret = [t \in EngineThreads |-> NoResult]
    /\ iter = [t \in EngineThreads |-> NoIter]
    /\ out = [t \in EngineThreads |-> <<>>]
    /\ snap = [t \in EngineThreads |-> <<>>]
    /\ wrappers = {Gauge(UpName, <<>>), Gauge(ResponseTimeName, <<>>)}
    /\ ncalls = 0
    /\ storage \in {MemoryStorage, SQLiteStorage}
    /\ now = 0
    /\ written = <<>>
    /\ sres = NoStoreResult
    /\ running = FALSE
    /\ tasks = {}
    /\ wpc = [t \in EngineThreads |-> IF t = Api THEN "api" ELSE "unstarted"]
    /\ cycle = [t \in EngineThreads |-> NoCycle]
    /\ targets = <<ConfigTarget>>
    /\ collecting = FALSE
    /\ loops = <<>>
    /\ collected = 0

\* the two coroutines of the event loop that fill catalog and store: targets
\* are scraped by scrape_target and metrics are ingested by the API. Neither
\* has an await that suspends, so one runs to its end before the other starts;
\* MaxScrapes of them run in one behaviour
NextScrape ==
    \/ \E c \in ScrapeCalls :
          /\ ncalls + cycle[Api].n < MaxScrapes
          /\ wpc[Api] = "api"
          /\ Invoke(Main, c)
          /\ UNCHANGED <<storeVars, engineVars>>
    \/ \E r \in ScrapeResponses : scrape_target(Main, r) /\ UNCHANGED <<storeVars, engineVars>>
    \/ parse_line(Main) /\ UNCHANGED engineVars
    \/ \E p \in Payloads :
          /\ ncalls + cycle[Api].n < MaxScrapes
          /\ pc[Main] = "idle"
          /\ ingest_register(p)
    \/ ingest_set
    \/ ingest_write
    \/ EngineStep(Api) /\ UNCHANGED <<storeVars, engineVars>>

SpecScrape == InitScrape /\ [][NextScrape]_vars

(***************************************************************************)
(* metrics/system.py: SystemCollector                                      *)
(***************************************************************************)
MaxLoops == 2       \* collect() tasks alive at a time in one behaviour

CpuName == <<"s", "y", "s", "t", "e", "m", "_", "c", "p", "u", "_", "u", "s", "a", "g", "e", "_", "p", "e", "r", "c", "e", "n", "t">>
MemoryName == <<"s", "y", "s", "t", "e", "m", "_", "m", "e", "m", "o", "r", "y", "_", "u", "s", "a", "g", "e", "_", "p", "e", "r", "c", "e", "n", "t">>
MemoryBytesName == <<"s", "y", "s", "t", "e", "m", "_", "m", "e", "m", "o", "r", "y", "_", "b", "y", "t", "e", "s">>
DiskName == <<"s", "y", "s", "t", "e", "m", "_", "d", "i", "s", "k", "_", "u", "s", "a", "g", "e", "_", "p", "e", "r", "c", "e", "n", "t">>
UptimeName == <<"s", "y", "s", "t", "e", "m", "_", "u", "p", "t", "i", "m", "e", "_", "s", "e", "c", "o", "n", "d", "s">>
RequestsName == <<"h", "t", "t", "p", "_", "r", "e", "q", "u", "e", "s", "t", "s", "_", "t", "o", "t", "a", "l">>

\* metric.name.startswith("system_")
SystemPrefix == <<"s", "y", "s", "t", "e", "m", "_">>

\* SystemCollector.__init__: the names its six wrappers register
CollectorSeries ==
    LET s1 == Registered(<<>>, CpuName, "gauge", <<"C", "P", "U", " ", "u", "s", "a", "g", "e", " ", "p", "e", "r", "c", "e", "n", "t", "a", "g", "e">>, <<>>)
        s2 == Registered(s1, MemoryName, "gauge", <<"M", "e", "m", "o", "r", "y", " ", "u", "s", "a", "g", "e", " ", "p", "e", "r", "c", "e", "n", "t", "a", "g", "e">>, <<>>)
        s3 == Registered(s2, MemoryBytesName, "gauge", <<"M", "e", "m", "o", "r", "y", " ", "u", "s", "a", "g", "e", " ", "i", "n", " ", "b", "y", "t", "e", "s">>, <<>>)
        s4 == Registered(s3, DiskName, "gauge", <<"D", "i", "s", "k", " ", "u", "s", "a", "g", "e", " ", "p", "e", "r", "c", "e", "n", "t", "a", "g", "e">>, <<>>)
        s5 == Registered(s4, UptimeName, "gauge", <<"S", "y", "s", "t", "e", "m", " ", "u", "p", "t", "i", "m", "e", " ", "i", "n", " ", "s", "e", "c", "o", "n", "d", "s">>, <<>>)
    IN  Registered(s5, RequestsName, "counter", <<"T", "o", "t", "a", "l", " ", "H", "T", "T", "P", " ", "r", "e", "q", "u", "e", "s", "t", "s">>, <<>>)

\* what psutil reports in one collection, or that it cannot be imported
NoPsutil == [psutil |-> FALSE, percent |-> 0, used |-> 0, total |-> 0]
Readings ==
    {NoPsutil} \cup {[psutil |-> TRUE, percent |-> v, used |-> v, total |-> MaxValue] : v \in 1..MaxValue}

\* Gauge.set(value, labels) of the wrapper of name on the catalog ms (the
\* collector has no base labels)
GaugeSet(ms, name, value, labels) ==
    Store(ms, name, labels_key(GaugeLabels(labels, <<>>)),
          Metric(name, value, CollectorSeries[name].metric_type, GaugeLabels(labels, <<>>),
                 CollectorSeries[name].help_text))

\* _collect_cpu, _collect_memory, _collect_disk, _collect_uptime in turn
Sampled(ms, r, clock) ==
    LET cpu  == GaugeSet(ms, CpuName, IF r.psutil THEN Num(r.percent, TRUE) ELSE Num(0, FALSE), <<>>)
        mem  == GaugeSet(cpu, MemoryName, IF r.psutil THEN Num(r.percent, TRUE) ELSE Num(0, FALSE), <<>>)
        used == IF r.psutil
                THEN GaugeSet(mem, MemoryBytesName, Num(r.used, FALSE),
                              <<Label(<<"t", "y", "p", "e">>, <<"u", "s", "e", "d">>)>>)
                ELSE mem
        tot  == IF r.psutil
                THEN GaugeSet(used, MemoryBytesName, Num(r.total, FALSE),
                              <<Label(<<"t", "y", "p", "e">>, <<"t", "o", "t", "a", "l">>)>>)
                ELSE used
        disk == GaugeSet(tot, DiskName, IF r.psutil THEN Num(r.percent, TRUE) ELSE Num(0, FALSE), <<>>)
    IN  GaugeSet(disk, UptimeName, Num(clock * 3600, TRUE), <<>>)

\* the for loop of collect over the Metrics ms of the catalog: those named
\* system_* are written to the store until a write raises
RECURSIVE WriteSystem(_, _, _, _)
WriteSystem(st, ms, clock, done) ==
    IF ms = <<>> THEN [storage |-> st, written |-> done, status |-> "ok"]
    ELSE IF ~StartsWith(ms[1].name, SystemPrefix)
    THEN WriteSystem(st, Tail(ms), clock, done)
    ELSE LET m == Stamped(ms[1], clock)
             w == StorageWrite(st, m, clock)
         IN  IF w.status # "ok"
             THEN [storage |-> w.storage, written |-> Append(done, m), status |-> w.status]
             ELSE WriteSystem(w.storage, Tail(ms), clock, Append(done, m))

\* SystemCollector.start: the flag is set and a collect() task is created
SystemCollector_start ==
    /\ Len(loops) < MaxLoops
    /\ collecting' = TRUE
    /\ loops' = Append(loops, "ready")
    /\ UNCHANGED <<collected, catalogVars, storeVars, running, tasks, wpc, cycle, targets>>

\* SystemCollector.stop
SystemCollector_stop ==
    /\ collecting' = FALSE
    /\ UNCHANGED <<loops, collected, catalogVars, storeVars, running, tasks, wpc, cycle, targets>>

\* SystemCollector.collect up to its `await asyncio.sleep`: the task returns
\* when the flag is down; else it samples, writes and goes to sleep (an
\* exception of the try block is printed)
collect(i, r) ==
    /\ loops[i] = "ready"
    /\ IF ~collecting
       THEN /\ loops' = SubSeq(loops, 1, i - 1) \o SubSeq(loops, i + 1, Len(loops))
            /\ UNCHANGED <<collected, metrics, storage, written, sres>>
       ELSE /\ collected < MaxCycles
            /\ lock = NoThread
            /\ LET ms == Sampled(metrics, r, now)
                   w  == WriteSystem(storage, AllMetrics(ms), now, <<>>)
               IN  /\ metrics' = ms
                   /\ storage' = w.storage
                   /\ written' = written \o w.written
                   /\ sres' = StoreResult("write", w.written[Len(w.written)], w.status, None)
            /\ loops' = [loops EXCEPT ![i] = "sleeping"]
            /\ collected' = collected + 1
    /\ UNCHANGED <<collecting, series, lock, pc, call, ret, iter, out, snap, wrappers, ncalls, now,
                   running, tasks, wpc, cycle, targets>>

\* the sleep of a task is over: asyncio.create_task(self.collect()), and the
\* task ends
wake(i) ==
    /\ loops[i] = "sleeping"
    /\ loops' = [loops EXCEPT ![i] = "ready"]
    /\ UNCHANGED <<collecting, collected, catalogVars, storeVars, running, tasks, wpc, cycle, targets>>

\* SystemCollector() has been constructed in a running event loop
InitCollector ==
    /\ series = CollectorSeries
    /\ metrics = <<>>
    /\ lock = NoThread
    /\ pc = [t \in Threads |-> "idle"]
    /\ call = [t \in Threads |-> NoCall]
    /\ ret = [t \in Threads |-> NoResult]
    /\ iter = [t \in Threads |-> NoIter]
    /\ out = [t \in Threads |-> <<>>]
    /\ snap = [t \in Threads |-> <<>>]
    /\ wrappers = {Gauge(n, <<>>) : n \in {CpuName, MemoryName, MemoryBytesName, DiskName, UptimeName}}
    /\ ncalls = 0
    /\ storage \in {MemoryStorage, SQLiteStorage}
    /\ now = 0
    /\ written = <<>>
    /\ sres = NoStoreResult
    /\ running = FALSE
    /\ tasks = {}
    /\ wpc = [t \in Threads |-> "unstarted"]
    /\ cycle = [t \in Threads |-> NoCycle]
    /\ targets = <<>>
    /\ collecting = FALSE
    /\ loops = <<>>
    /\ collected = 0

\* the owner starts and stops the collector at any time; the event loop runs
\* its tasks
NextCollector ==
    \/ SystemCollector_start
    \/ SystemCollector_stop
    \/ \E i \in DOMAIN loops : \E r \in Readings : collect(i, r)
    \/ \E i \in DOMAIN loops : wake(i)

SpecCollector == InitCollector /\ [][NextCollector]_vars

TypeOK ==
    /\ lock \in Threads \cup {NoThread}
    /\ ncalls \in 0..MaxCalls
    /\ \A t \in Threads : pc[t] \in {"idle", "register_lock", "register_body", "set_lock",
                                     "set_body", "inc_lock", "inc_body", "get_metric",
                                     "gam_lock", "gam_next", "export_sort", "export_name",
                                     "export_value", "parse_line", "fetch"}

(***************************************************************************)
(* Properties of the catalog under concurrent callers (Spec)               *)
(***************************************************************************)
IsPrefix(a, b) == Len(a) <= Len(b) /\ SubSeq(b, 1, Len(a)) = a

\* thread t waits for the catalog mutex while holding it itself: inc found no
\* Sample at the key and called self.set inside its own `with self._lock`
SelfBlocked(t) == pc[t] = "set_lock" /\ lock = t

\* the value stored for the labels of call c, 0 when there is no Sample
StoredValue(ms, c) ==
    LET items == Items(ms, c.name)
        j     == KeyIndex(items, labels_key(c.labels))
    IN  IF j = 0 THEN 0 ELSE items[j].m.value.n

\* C1: every inc on a registered name returns normally, the first one on a
\* label-set without Sample behaving as set(name, delta, labels): the
\* calling thread is never left waiting for the catalog mutex that it holds
\* itself (a wait that cannot end), and each inc that returns has added its
\* delta to the stored value, so that the value is the sum of the deltas.
C1_IncReturnsNormally ==
    /\ [](\A t \in Threads : call[t].op = "inc" => ~SelfBlocked(t))
    /\ [][\A t \in Threads :
            (call[t].op = "inc" /\ pc[t] # "idle" /\ pc'[t] = "idle" /\ ret'[t].status = "ok")
            => StoredValue(metrics', call[t]) = StoredValue(metrics, call[t]) + call[t].value.n]_vars

\* C2: set and inc on a name that was never registered fail with the
\* "unknown metric" error and change neither the series map nor the sample
\* map; every name of the sample map is a registered name.
C2_UnknownMetricFails ==
    /\ [](\A i \in 1..Len(metrics) : metrics[i].name \in DOMAIN series)
    /\ [][\A t \in Threads :
            (/\ pc[t] \in {"set_body", "inc_body"}
             /\ pc'[t] # pc[t]
             /\ call[t].name \notin DOMAIN series)
            => (/\ ret'[t].status = "ValueError"
                /\ pc'[t] = "idle"
                /\ series' = series
                /\ metrics' = metrics)]_vars

\* a set or an inc on an unregistered name has returned its error
C2_Witness ==
    \E t \in Threads : ret[t].op \in {"set", "inc"} /\ ret[t].status = "ValueError"

Readers == {"get_metric", "export_sort", "export_name", "export_value"}
Writers == {"register_body", "set_body", "inc_body", "gam_next"}

\* C3: the catalog operations are serialized by the one mutex: no thread is
\* about to read the series/sample maps in get_metric or export_prometheus
\* while another thread is inside a locked catalog operation, and no export
\* finds a map changed under its iteration (RuntimeError).
C3_Serialized ==
    /\ \A r \in Threads : \A w \in Threads \ {r} :
          ~(pc[r] \in Readers /\ lock = w /\ pc[w] \in Writers)
    /\ \A t \in Threads : ret[t].status # "RuntimeError"

\* C4: the items yielded by an iteration of get_all_metrics are the Samples
\* stored when the iteration began: while it runs the yielded items are a
\* prefix of that snapshot, and when it ends every Sample of the snapshot
\* has been yielded exactly once and nothing else, whatever the other
\* threads called meanwhile.
C4_SnapshotView ==
    \A t \in Threads :
        /\ pc[t] = "gam_next" => IsPrefix(out[t], snap[t])
        /\ ret[t].op = "get_all_metrics" => ret[t].status = "ok" /\ ret[t].val = snap[t]

\* an iteration that has yielded a Sample is still open while another thread
\* waits to set, inc or register
C4_Witness ==
    \E t \in Threads : \E u \in Threads \ {t} :
        /\ pc[t] = "gam_next"
        /\ out[t] # <<>>
        /\ pc[u] \in {"set_lock", "inc_lock", "register_lock"}

\* C5: a register of an already registered name returns the existing series,
\* raises nothing and changes neither the kind nor the help text fixed by
\* the first registration, nor any stored Sample.
C5_IdempotentRegistration ==
    [][/\ \A n \in DOMAIN series : n \in DOMAIN series' /\ series'[n] = series[n]
       /\ \A t \in Threads :
            (pc[t] = "register_body" /\ pc'[t] # pc[t])
            => (/\ metrics' = metrics
                /\ ret'[t].status = "ok"
                /\ (call[t].name \in DOMAIN series
                      => ret'[t].val = <<series[call[t].name]>>))]_vars

\* a register asking for another kind than the registered one has returned,
\* with Samples stored under the name
C5_Witness ==
    \E t \in Threads :
        /\ ret[t].op = "register"
        /\ ret[t].val # None
        /\ ret[t].val[1].metric_type # ret[t].args.metric_type
        /\ Items(metrics, ret[t].args.name) # <<>>

(***************************************************************************)
(* Properties of one sequential caller (SpecMain)                          *)
(***************************************************************************)
\* a label list as the set of its (name, value) pairs
AsSet(labels) == {labels[i] : i \in 1..Len(labels)}

Count(labels, l) == Cardinality({i \in 1..Len(labels) : labels[i] = l})

IsPermutation(p, q) ==
    /\ Len(p) = Len(q)
    /\ \A l \in AsSet(p) \cup AsSet(q) : Count(p, l) = Count(q, l)

\* what get_metric(name, labels) returns in the current state
Lookup(name, labels) ==
    LET items == Items(metrics, name)
        j     == KeyIndex(items, labels_key(labels))
    IN  IF j = 0 THEN None ELSE <<items[j].m>>

\* C6: after set(name, v, L) the label-set of L holds exactly one Sample,
\* with value v, and get_metric(name, P) returns it for every permutation P
\* of L -- so a set with a permuted list overwrites, never duplicates.
C6_OrderIndependence ==
    \A t \in Threads :
        (ret[t].op = "set" /\ ret[t].status = "ok")
        => LET a     == ret[t].args
               items == Items(metrics, a.name)
           IN  /\ Cardinality({j \in 1..Len(items) :
                                 IsPermutation(items[j].m.labels, a.labels)}) = 1
               /\ \A p \in LabelLists :
                     IsPermutation(p, a.labels)
                     => Lookup(a.name, p) # None /\ Lookup(a.name, p)[1].value = a.value

\* C7: two label-sets that differ as sets of (name, value) pairs never share
\* a key: get_metric returns only a Sample of the label-set asked for, and a
\* set or inc leaves the Samples of every other label-set as they were.
C7_KeyUniqueness ==
    /\ [](\A t \in Threads :
            (ret[t].op = "get_metric" /\ ret[t].val # None)
            => AsSet(ret[t].val[1].labels) = AsSet(ret[t].args.labels))
    /\ [][\A t \in Threads :
            (pc[t] \in {"set_body", "inc_body"} /\ pc'[t] = "idle")
            => \A j \in 1..Len(Items(metrics, call[t].name)) :
                  LET e == Items(metrics, call[t].name)[j]
                  IN  AsSet(e.m.labels) # AsSet(CallLabels(call[t]))
                      => Items(metrics', call[t].name)[j] = e]_vars

HelpPrefix == <<"#", " ", "H", "E", "L", "P", " ">>
TypePrefix == <<"#", " ", "T", "Y", "P", "E", " ">>

\* the exposition text has, for each registered name in lexicographic order,
\* one HELP line, one TYPE line with the registered kind, then one value line
\* per stored Sample, without a {} block for an empty label-set
ExportWellFormed(text) ==
    LET lines  == IF text = <<>> THEN <<>> ELSE Split(text, "\n")
        helps  == {i \in 1..Len(lines) : StartsWith(lines[i], HelpPrefix)}
        types  == {i \in 1..Len(lines) : StartsWith(lines[i], TypePrefix)}
        HelpAt(n) == {i \in helps : lines[i] = HelpPrefix \o n \o <<" ">> \o series[n].help_text}
        TypeAt(n) == {i \in types :
                        lines[i] = TypePrefix \o n \o <<" ">> \o TypeValue(series[n].metric_type)}
        Pos(n)    == CHOOSE i \in HelpAt(n) : TRUE
        End(n)    == IF \E i \in helps : i > Pos(n)
                     THEN (CHOOSE i \in helps : i > Pos(n) /\ \A k \in helps : k > Pos(n) => i <= k) - 1
                     ELSE Len(lines)
    IN  /\ (DOMAIN series = {}) = (text = <<>>)
        /\ Cardinality(helps) = Cardinality(DOMAIN series)
        /\ Cardinality(types) = Cardinality(DOMAIN series)
        /\ \A n \in DOMAIN series :
              /\ Cardinality(HelpAt(n)) = 1
              /\ TypeAt(n) = {Pos(n) + 1}
              /\ End(n) - (Pos(n) + 1) = Len(Items(metrics, n))
              /\ \A j \in 1..Len(Items(metrics, n)) :
                    LET m    == Items(metrics, n)[j].m
                        line == lines[Pos(n) + 1 + j]
                    IN  /\ StartsWith(line, n)
                        /\ (m.labels = <<>>) = ~Contains(line, "{")
                        /\ ParseFloat(RSplitOnce(line, " ")[2]).value.n = m.value.n
        /\ \A n1 \in DOMAIN series : \A n2 \in DOMAIN series :
              StrLess(n1, n2) => Pos(n1) < Pos(n2)

\* C8: export_prometheus is deterministic and well formed (names in
\* lexicographic order; per name one HELP line, one TYPE line with the kind
\* fixed at registration, one value line per stored Sample), and a counter
\* incremented by the default delta gets there: an inc with the default
\* delta on a registered counter returns, so that three of them leave the
\* value 3 to export.
C8_ExportDeterministic ==
    \A t \in Threads :
        /\ (ret[t].op = "export_prometheus" /\ ret[t].status = "ok")
           => ExportWellFormed(ret[t].val)
        /\ (/\ call[t].op = "inc"
            /\ call[t].value = DefaultDelta
            /\ call[t].name \in DOMAIN series
            /\ series[call[t].name].metric_type = "counter")
           => ~SelfBlocked(t)

\* the part of C8 about the text alone
C8_ExportStructure ==
    \A t \in Threads :
        (ret[t].op = "export_prometheus" /\ ret[t].status = "ok")
        => ExportWellFormed(ret[t].val)

Triple(name, labels, value) == <<name, AsSet(labels), value.n>>

CatalogTriples ==
    LET ms == AllMetrics(metrics)
    IN  {Triple(ms[i].name, ms[i].labels, ms[i].value) : i \in 1..Len(ms)}

ParsedTriples(text) ==
    LET ps == ParseLines(text, ScrapeTarget(<<>>, FALSE))
    IN  {Triple(ps[i].name, ps[i].labels, ps[i].value) : i \in 1..Len(ps)}

\* C9: the value lines of an export, parsed by the scrape parser for a target
\* without static labels, give exactly the (name, label-set, value) triples
\* the catalog holds.
C9_RoundTrip ==
    \A t \in Threads :
        (ret[t].op = "export_prometheus" /\ ret[t].status = "ok")
        => ParsedTriples(ret[t].val) = CatalogTriples

\* the labels of base followed by those of labels that base does not have
LabelUnion(base, labels) == base \o SelectSeq(labels, LAMBDA l : l \notin AsSet(base))

\* C10: after Gauge(name, labels=B).set(value, labels=L) the Sample is stored
\* under the union of B and L: get_metric(name, B u L) returns a Sample with
\* that value.
C10_GaugeBaseLabels ==
    \A t \in Threads :
        (ret[t].op = "Gauge.set" /\ ret[t].status = "ok")
        => LET a == ret[t].args
               m == Lookup(a.name, LabelUnion(a.base, a.labels))
           IN  m # None /\ m[1].value = a.value

(***************************************************************************)
(* Properties of the sample store (SpecStore)                              *)
(***************************************************************************)
\* the points held under a key of MemoryStorage._data
PointsOf(data, key) ==
    IF KeyIndex(data, key) = 0 THEN <<>> ELSE data[KeyIndex(data, key)].points

\* C11: retention of the volatile store is triggered by writes only: a read
\* evicts nothing, so a point older than the retention window is returned
\* as long as its key is not written; and after every write to a key, every
\* point remaining under that key is newer than now - retention_hours, so
\* that no later read returns an older one.
C11_WriteTriggeredRetention ==
    [][/\ (sres'.op = "read" /\ written' = written) => storage' = storage
       /\ (storage.cls = "MemoryStorage" /\ written' # written)
          => LET K == StorageKey(written'[Len(written')])
                 points == PointsOf(storage'.data, K)
             IN  \A i \in 1..Len(points) : points[i].timestamp > now - retention_hours]_vars

\* a point as a pair of timestamp and numeric value
Pairs(points) == [i \in 1..Len(points) |-> <<points[i].timestamp, points[i].value.n>>]

\* the metric was written and the backend still holds its point
Retained(st, m) ==
    \/ st.cls = "SQLiteStorage"
    \/ \E i \in 1..Len(PointsOf(st.data, StorageKey(m))) :
          PointsOf(st.data, StorageKey(m))[i] = DataPoint(m.timestamp, m.value)

\* C12: on either backend, read(name, start, end) without label filter
\* returns exactly the retained points written under that very metric name
\* (whatever their labels, none of another name) whose timestamp lies in
\* [start, end], ordered by timestamp.
C12_ReadByName ==
    [][(sres'.op = "read" /\ written' = written /\ sres'.args.labels = <<>>)
       => LET a == sres'.args
              expected == SelectSeq(written, LAMBDA m : /\ m.name = a.name
                                                        /\ a.start <= m.timestamp
                                                        /\ m.timestamp <= a.end
                                                        /\ Retained(storage, m))
              got == sres'.val
          IN  /\ IsPermutation(Pairs(got), Pairs(expected))
              /\ \A i \in 1..Len(got) : \A j \in i..Len(got) :
                    got[i].timestamp <= got[j].timestamp]_vars

\* C13: on either backend, get_series_names returns exactly the distinct
\* metric names that were written, each once and unaltered.
C13_SeriesNames ==
    [][(sres'.op = "get_series_names" /\ written' = written)
       => LET got == sres'.val
          IN  /\ {got[i] : i \in 1..Len(got)} = {written[i].name : i \in 1..Len(written)}
              /\ \A i \in 1..Len(got) : \A j \in 1..Len(got) : got[i] = got[j] => i = j]_vars

(***************************************************************************)
(* Properties of the scrape parser (SpecParse)                             *)
(***************************************************************************)
Occurrences(s, c) == Cardinality({i \in 1..Len(s) : s[i] = c})

\* a line the parser passes over without a word: blank, or a comment
SilentLine(raw) == Strip(raw) = <<>> \/ Head(Strip(raw)) = "#"

\* a valid sample line: a name, at most one balanced {...} block and a number
ValidLine(raw) ==
    LET line == Strip(raw)
    IN  /\ ~SilentLine(raw)
        /\ \/ /\ Occurrences(line, "{") = 0 /\ Occurrences(line, "}") = 0
              /\ Len(SplitWs(line)) >= 2
              /\ ParseFloat(SplitWs(line)[2]).ok
           \/ /\ Occurrences(line, "{") = 1 /\ Occurrences(line, "}") = 1
              /\ FirstIndex(line, "{") < FirstIndex(line, "}")
              /\ Strip(SplitOnce(line, "{")[1]) # <<>>
              /\ ParseFloat(SplitOnce(line, "}")[2]).ok

MalformedLine(raw) == ~SilentLine(raw) /\ ~ValidLine(raw)

\* C14: when the parser returns for a body of N valid lines and at most one
\* malformed line (a bad number, unbalanced braces), wherever it stands,
\* the scrape result reports exactly N parsed samples: metrics_count = N,
\* also when several valid lines share a metric name.
C14_ParserResilience ==
    [][(pc[Main] = "parse_line" /\ pc'[Main] = "idle" /\ call[Main].op = "scrape_target")
       => LET lines == Split(call[Main].content, "\n")
              N == Cardinality({i \in 1..Len(lines) : ValidLine(lines[i])})
          IN  Cardinality({i \in 1..Len(lines) : MalformedLine(lines[i])}) <= 1
              => ret'[Main].val.metrics_count = N]_vars

\* the sample that a step of the parser has just produced, with its line
NewSample(honor) ==
    /\ call[Main].op = "scrape_target"
    /\ call[Main].honor_labels = honor
    /\ Len(out'[Main]) = Len(out[Main]) + 1

\* the labels written inside the {...} block of a line
BlockLabels(raw) ==
    LET line == Strip(raw)
    IN  IF Contains(line, "{")
        THEN ParseLabels(Split(RSplitOnce(SplitOnce(line, "{")[2], "}")[1], ","))
        ELSE <<>>

\* C15: with honor_labels false, the label-set of each sample produced is
\* the static labels of the target merged with the labels parsed from the
\* line, each label name occurring once in it.
C15_StaticLabelsMerged ==
    [][NewSample(FALSE)
       => LET smp == out'[Main][Len(out'[Main])]
              raw == Split(call[Main].content, "\n")[iter'[Main].i]
          IN  /\ AsSet(smp.labels) = AsSet(call[Main].labels) \cup AsSet(BlockLabels(raw))
              /\ \A i \in 1..Len(smp.labels) : \A j \in 1..Len(smp.labels) :
                    smp.labels[i].name = smp.labels[j].name => i = j]_vars

\* C16: with honor_labels true, the static labels of the target are dropped:
\* the label-set of each sample produced, and of the Sample stored for it in
\* the catalog, is exactly the labels parsed from the line -- empty for a
\* line without {...} block.
C16_HonorLabels ==
    [][NewSample(TRUE)
       => LET smp == out'[Main][Len(out'[Main])]
              raw == Split(call[Main].content, "\n")[iter'[Main].i]
              items == Items(metrics', smp.name)
          IN  /\ smp.labels = BlockLabels(raw)
              /\ ~Contains(raw, "{") => smp.labels = <<>>
              /\ KeyIndex(items, labels_key(smp.labels)) # 0
              /\ items[KeyIndex(items, labels_key(smp.labels))].m.labels = BlockLabels(raw)]_vars

\* a target with static labels and honor_labels true has answered with a
\* line without block and a line with one, and both were parsed
C16_Witness ==
    /\ call[Main].op = "scrape_target"
    /\ call[Main].honor_labels
    /\ call[Main].labels # <<>>
    /\ Len(out[Main]) = 2
    /\ out[Main][1].labels = <<>>
    /\ out[Main][2].labels # <<>>

(***************************************************************************)
(* Properties of the scrape engine (SpecEngine)                            *)
(***************************************************************************)
\* worker w has finished the try statement of a cycle and is about to sleep
AtSleep(w) == wpc[w] = "sleep" /\ pc[w] = "idle"

\* the fetch of the cycle of w returned a 200 response
Succeeded(w) == cycle[w].response.kind = "response" /\ cycle[w].response.status_code = 200

\* C17: in every cycle of a worker that fetches a 200 response, each line
\* of the body that parses has, before the worker sleeps, its name
\* registered in the catalog, a Sample stored under that name in the
\* catalog and a point written under that name to the store.
C17_WorkerRecordsSamples ==
    \A w \in Workers :
        (AtSleep(w) /\ Succeeded(w))
        => LET ps == ParseLines(cycle[w].response.text, ScrapeTarget(<<>>, TRUE))
           IN  \A i \in 1..Len(ps) :
                  /\ ps[i].name \in DOMAIN series
                  /\ Items(metrics, ps[i].name) # <<>>
                  /\ \E k \in 1..Len(written) : written[k].name = ps[i].name

\* C18: after every completed cycle of a worker, whatever its outcome (200,
\* another status, timeout, connection refused, another exception), the
\* cycle has incremented pymon_scrape_total once and exactly one of
\* pymon_scrape_success_total (on a 200) and pymon_scrape_failures_total
\* (otherwise) once -- which is what keeps attempts = successes + failures
\* between cycles.
C18_AttemptsCounted ==
    \A w \in Workers :
        AtSleep(w)
        => /\ Occurrences(cycle[w].incs, ScrapeTotalName) = 1
           /\ Occurrences(cycle[w].incs, ScrapeSuccessName) = (IF Succeeded(w) THEN 1 ELSE 0)
           /\ Occurrences(cycle[w].incs, ScrapeFailuresName) = (IF Succeeded(w) THEN 0 ELSE 1)

\* C19: after every completed cycle of a worker the up gauge of its job and
\* target holds 1 if the cycle succeeded and 0 if it failed, whatever the
\* class of the failure.
C19_UpReflectsLastCycle ==
    \A w \in Workers :
        AtSleep(w)
        => /\ Lookup(UpName, HealthLabels(cycle[w].target)) # None
           /\ Lookup(UpName, HealthLabels(cycle[w].target))[1].value.n = (IF Succeeded(w) THEN 1 ELSE 0)

\* C20: no outcome of a fetch ends a worker or leaves it unable to go on to
\* its sleep and its next cycle: the worker thread never dies of an
\* exception and is never left waiting for the catalog mutex that it holds
\* itself, a wait that no step can end.
C20_WorkerKeepsPolling ==
    \A w \in Workers : wpc[w] # "dead" /\ ~SelfBlocked(w)

(***************************************************************************)
(* Claims about starting, stopping, adding and removing (SpecManage)       *)
(***************************************************************************)
\* a thread that has been started and has not ended
Live(w) == wpc[w] \notin {"unstarted", "closed", "dead"}

\* a live thread that is inside a cycle: it has passed the test of the flag
Polling(w) == Live(w) /\ wpc[w] # "while"

\* C21: stop() is effective. A worker that was running when stop() was called
\* (it is alive and stop() has taken it out of _tasks) finishes the cycle in
\* flight and then ends: it passes the test of the flag no more and begins no
\* new fetch; and a worker that has seen the flag false begins no fetch.
C21_StopIsEffective ==
    [][\A w \in Workers :
          /\ (wpc[w] = "while" /\ wpc'[w] = "get") => w \in tasks
          /\ (wpc[w] = "closed" /\ wpc'[w] # "closed") => (wpc'[w] = "while" /\ w \in tasks')]_vars

C23_RemovedTargetNotPolled ==
    \A w \in Workers : cycle[w].untracked <= 1

\* C28: at most one live polling worker per tracked target: no two threads
\* are inside a cycle for the same tracked target.
C28_OneWorkerPerTarget ==
    \A w \in Workers : \A u \in Workers \ {w} :
        (Polling(w) /\ Polling(u) /\ Tracked(cycle[w].target))
            => cycle[w].target # cycle[u].target

(***************************************************************************)
(* Claims about catalog and store written together (SpecScrape, SpecParse) *)
(***************************************************************************)
\* what get_metric(name, labels) returns when the catalog holds ms
LookupIn(ms, name, labels) ==
    LET items == Items(ms, name)
        j     == KeyIndex(items, labels_key(labels))
    IN  IF j = 0 THEN None ELSE <<items[j].m>>

\* C24: catalog and store are written independently. When the write of a
\* parsed or ingested sample to the store fails, the catalog keeps the update
\* (get_metric returns the Sample with the value written), and the parser
\* goes on to the next line without returning or raising.
C24_StoreFailureKeepsCatalog ==
    [][(Len(written') = Len(written) + 1 /\ sres'.status # "ok") =>
          LET m == written'[Len(written')]
          IN  /\ LookupIn(metrics', m.name, m.labels) # None
              /\ LookupIn(metrics', m.name, m.labels)[1].value = m.value
              /\ pc[Main] = "parse_line" =>
                    /\ pc'[Main] = "parse_line"
                    /\ ret'[Main] = ret[Main]
                    /\ iter'[Main].i = iter[Main].i + 1
                    /\ Len(out'[Main]) = Len(out[Main]) + 1]_vars

\* a scrape has returned both samples of a body although each write to the
\* store had failed, and an ingested sample whose write failed is in the
\* catalog
C24_Witness ==
    /\ sres.status = "NameError"
    /\ ret[Main].op = "scrape_target" /\ ret[Main].status = "ok"
    /\ ret[Main].val.metrics_count = 2
    /\ \E i \in DOMAIN written :
          /\ written[i].name \in {ScrapeTotalName, ScrapeSuccessName, ScrapeFailuresName}
          /\ written[i].metric_type = "counter"
          /\ Lookup(written[i].name, written[i].labels) # None

\* C25: every fetch outcome is classified: a ScrapeResult with success true
\* carries no error, and every ScrapeResult with success false (a status
\* other than 200 included) carries a non-empty error.
C25_OutcomeClassified ==
    (ret[Main].op = "scrape_target" /\ ret[Main].status = "ok")
        => (ret[Main].val.success <=> ret[Main].val.error = <<>>)

\* C30: no scraped payload overwrites the Sample of a health counter of the
\* engine, or changes its kind: a step of the parser leaves what
\* get_metric(name, []) returns for each of the three counters, and the kind
\* registered for it, as they were.
C30_HealthCountersProtected ==
    [][pc[Main] = "parse_line" =>
          \A n \in {ScrapeTotalName, ScrapeSuccessName, ScrapeFailuresName} :
              /\ LookupIn(metrics', n, <<>>) = LookupIn(metrics, n, <<>>)
              /\ series'[n].metric_type = "counter"]_vars

(***************************************************************************)
(* Claims about the mutex and the Gauge wrapper (Spec, SpecGauge)          *)
(***************************************************************************)
\* C27: the catalog is free of deadlock: the mutex is free whenever no
\* catalog call is executing, and no call waits for the mutex while its own
\* thread holds it (such a call never returns) -- the first inc on a
\* label-set without a Sample included.
C27_CatalogDeadlockFree ==
    /\ (\A t \in Threads : pc[t] = "idle") => lock = NoThread
    /\ \A t \in Threads :
          pc[t] \in {"register_lock", "set_lock", "inc_lock", "gam_lock"} => lock # t

\* C29: Gauge.inc(v) and Gauge.dec(v) add v to, and subtract it from, the
\* value stored when the update is applied (0 when there is none), so that no
\* update is lost: the step that stores the result of an inc or dec leaves
\* the value it found plus the delta.
C29_GaugeIncAtomic ==
    [][\A t \in Threads :
          (pc[t] = "set_body" /\ call[t].op \in {"Gauge.inc", "Gauge.dec"} /\ pc'[t] = "idle")
              => StoredValue(metrics', call[t]) = StoredValue(metrics, call[t]) + out[t][1].n]_vars

(***************************************************************************)
(* Claims about the self collector (SpecCollector)                         *)
(***************************************************************************)
\* C26: the self collector runs a single cooperative loop: at most one
\* collect() task is alive under any sequence of start() and stop(); and
\* nothing is sampled or written while the flag is down, before the first
\* start() and after a stop().
C26_SingleCollectionLoop ==
    /\ [](Len(loops) <= 1)
    /\ [][(collected' # collected \/ written' # written \/ metrics' # metrics) => collecting]_vars
====
